---- MODULE Spec2Model ----
(***************************************************************************)
(* Model of db/version_edit.h (MoonKV, a RocksDB variant): FileDescriptor, *)
(* FileMetaData and the VersionEdit mutation API, plus the tagged decode   *)
(* loop of the manifest protocol.                                          *)
(*                                                                         *)
(* Each C++ method is a pure operator on the record that models the object *)
(* (the value after the call) together with the predicate its assert()s    *)
(* state; the actions apply them to the state.  The model is of a build    *)
(* with assertions enabled: a failed assert() aborts the process.          *)
(***************************************************************************)
EXTENDS Integers, Sequences, FiniteSets, TLC

(***************************************************************************)
(* Bounds of the model.                                                    *)
(***************************************************************************)
\* mutation-API calls made on one VersionEdit
MaxCalls == 3
\* calls in the specification that varies the files' sequence numbers
MaxFileCalls == 2
\* sequence numbers given by callers are 0..MaxSeq
MaxSeq == 2
\* levels are 0..MaxLevel
MaxLevel == 1
\* the file number takes the low NumberBits bits of the packed word
NumberBits == 3

Seqs == 0..MaxSeq
Levels == 0..MaxLevel

\* dbformat.h: the largest sequence number.  SequenceNumber is narrowed to
\* 0..kMaxSequenceNumber (the real value, 2^56 - 1, is beyond TLC's integers);
\* only its order relative to the callers' numbers matters here.
kMaxSequenceNumber == MaxSeq + 1

\* std::map<uint32_t,uint32_t> values: functions with a finite domain
EmptyMap == <<>>
\* file numbers used by the callers
FileNumbers == {1, 2}
\* reference-count maps a caller may pass (keyed by file number)
RefMaps == {EmptyMap, (2 :> 3)}
\* InternalKey values; "" is the default-constructed (empty) key
Keys == {"", "a", "b"}
\* WAL numbers; 0 is WalDeletion::kEmpty
WalNumbers == {0, 1}

Max(a, b) == IF a >= b THEN a ELSE b
Min(a, b) == IF a <= b THEN a ELSE b

(***************************************************************************)
(* FileDescriptor                                                          *)
(***************************************************************************)
\* uint64_t is narrowed to NumberBits + PathBits bits: the file number has the
\* low NumberBits bits of packed_number_and_path_id (60 of 64 in the source),
\* the path id the PathBits above them.
PathBits == 4
kFileNumberMask == 2^NumberBits - 1
Uint64 == 2^(NumberBits + PathBits)

\* a | b and a & b on unsigned words
RECURSIVE BitOr(_, _)
BitOr(a, b) ==
  IF a = 0 THEN b
  ELSE IF b = 0 THEN a
  ELSE Max(a % 2, b % 2) + 2 * BitOr(a \div 2, b \div 2)

RECURSIVE BitAnd(_, _)
BitAnd(a, b) ==
  IF a = 0 \/ b = 0 THEN 0
  ELSE Min(a % 2, b % 2) + 2 * BitAnd(a \div 2, b \div 2)

\* number | (path_id << 60), in unsigned 64-bit arithmetic
PackFileNumberAndPathId(number, path_id) ==
  BitOr(number, (path_id * (kFileNumberMask + 1)) % Uint64)

\* mutant: the mask is applied as a modulus
GetNumber_modulo(fd) == fd.packed_number_and_path_id % kFileNumberMask

GetNumber(fd) == BitAnd(fd.packed_number_and_path_id, kFileNumberMask)

\* static_cast<uint32_t> of a quotient below 2^PathBits changes nothing
GetPathId(fd) == fd.packed_number_and_path_id \div (kFileNumberMask + 1)

\* a pointer is nullptr or points to an object (a record with null = FALSE)
nullptr == [null |-> TRUE]

\* mutant: the constructor clamps smallest_seqno to largest_seqno
FileDescriptor_full_clamped(number, path_id, sub, father, file_size, sub_file_size, s, l) ==
  [ packed_number_and_path_id |-> PackFileNumberAndPathId(number, path_id),
    file_size |-> file_size,
    sub_file_size |-> sub_file_size,
    table_reader |-> nullptr,
    sub_number_to_reference_key |-> sub,
    father_number_to_reference_key |-> father,
    smallest_seqno |-> Min(s, l),
    largest_seqno |-> l ]

\* the 8-argument constructor all others delegate to: stores what it is given
FileDescriptor_full(number, path_id, sub, father, file_size, sub_file_size, s, l) ==
  [ packed_number_and_path_id |-> PackFileNumberAndPathId(number, path_id),
    file_size |-> file_size,
    sub_file_size |-> sub_file_size,
    table_reader |-> nullptr,
    sub_number_to_reference_key |-> sub,
    father_number_to_reference_key |-> father,
    smallest_seqno |-> s,
    largest_seqno |-> l ]

\* FileDescriptor(number, path_id, file_size)
FileDescriptor_size(number, path_id, file_size) ==
  FileDescriptor_full(number, path_id, EmptyMap, EmptyMap, file_size, 0, kMaxSequenceNumber, 0)

\* FileDescriptor()
FileDescriptor_default == FileDescriptor_size(0, 0, 0)

\* FileDescriptor(number, path_id, file_size, smallest_seqno, largest_seqno)
FileDescriptor_seq(number, path_id, file_size, s, l) ==
  FileDescriptor_full(number, path_id, EmptyMap, EmptyMap, file_size, 0, s, l)

\* FileDescriptor(number, path_id, file_size, sub_file_size)
FileDescriptor_sub(number, path_id, file_size, sub_file_size) ==
  FileDescriptor_full(number, path_id, EmptyMap, EmptyMap, file_size, sub_file_size, kMaxSequenceNumber, 0)

\* FileDescriptor(number, path_id, file_size, sub_file_size, smallest, largest)
FileDescriptor_subseq(number, path_id, file_size, sub_file_size, s, l) ==
  FileDescriptor_full(number, path_id, EmptyMap, EmptyMap, file_size, sub_file_size, s, l)

(***************************************************************************)
(* FileMetaData                                                            *)
(***************************************************************************)
kUnknownOldestAncesterTime == 0
kUnknownFileCreationTime == 0

\* the constructor with merge_entries
FileMetaData_merge(file, file_path_id, total_entries, reference_entries, merge_entries, sub, father, file_size, sub_file_size, smallest_key, largest_key, s, l, marked_for_compact, oldest_ancester_time, file_creation_time) ==
  [ fd |-> FileDescriptor_full(file, file_path_id, sub, father, file_size, sub_file_size, s, l),
    oldest_ancester_time |-> oldest_ancester_time,
    file_creation_time |-> file_creation_time,
    smallest |-> smallest_key,
    largest |-> largest_key,
    refs |-> 0,
    is_deleted |-> FALSE,
    total_entries_ |-> total_entries,
    reference_entries_ |-> reference_entries,
    merge_entries_ |-> merge_entries,
    marked_for_compaction |-> marked_for_compact ]

\* the constructor without merge_entries: merge_entries_ keeps its default 0
FileMetaData_ref(file, file_path_id, total_entries, reference_entries, sub, father, file_size, sub_file_size, smallest_key, largest_key, s, l, marked_for_compact, oldest_ancester_time, file_creation_time) ==
  [ fd |-> FileDescriptor_full(file, file_path_id, sub, father, file_size, sub_file_size, s, l),
    oldest_ancester_time |-> oldest_ancester_time,
    file_creation_time |-> file_creation_time,
    smallest |-> smallest_key,
    largest |-> largest_key,
    refs |-> 0,
    is_deleted |-> FALSE,
    total_entries_ |-> total_entries,
    reference_entries_ |-> reference_entries,
    merge_entries_ |-> 0,
    marked_for_compaction |-> marked_for_compact ]

\* the RocksDB constructor: delegates with empty maps and zero counters
FileMetaData_plain(file, file_path_id, file_size, smallest_key, largest_key, s, l, marked_for_compact, oldest_ancester_time, file_creation_time) ==
  FileMetaData_ref(file, file_path_id, 0, 0, EmptyMap, EmptyMap, file_size, 0, smallest_key, largest_key, s, l, marked_for_compact, oldest_ancester_time, file_creation_time)

\* FileMetaData() = default: a default FileDescriptor and the member defaults
FileMetaData_default ==
  [ fd |-> FileDescriptor_default,
    oldest_ancester_time |-> kUnknownOldestAncesterTime,
    file_creation_time |-> kUnknownFileCreationTime,
    smallest |-> "",
    largest |-> "",
    refs |-> 0,
    is_deleted |-> FALSE,
    total_entries_ |-> 0,
    reference_entries_ |-> 0,
    merge_entries_ |-> 0,
    marked_for_compaction |-> FALSE ]

\* table/table_reader.h: a TableReader whose GetTableProperties() returns the
\* properties given, or nullptr
TableReader(properties) == [null |-> FALSE, GetTableProperties |-> properties]

\* mutant: the table reader's value is preferred to the stored one
TryGetOldestAncesterTime_readerFirst(f) ==
  IF f.fd.table_reader # nullptr /\ f.fd.table_reader.GetTableProperties # nullptr
    THEN f.fd.table_reader.GetTableProperties.creation_time
  ELSE f.oldest_ancester_time

TryGetOldestAncesterTime(f) ==
  IF f.oldest_ancester_time # kUnknownOldestAncesterTime
    THEN f.oldest_ancester_time
  ELSE IF f.fd.table_reader # nullptr /\ f.fd.table_reader.GetTableProperties # nullptr
    THEN f.fd.table_reader.GetTableProperties.creation_time
  ELSE kUnknownOldestAncesterTime

TryGetFileCreationTime(f) ==
  IF f.file_creation_time # kUnknownFileCreationTime
    THEN f.file_creation_time
  ELSE IF f.fd.table_reader # nullptr /\ f.fd.table_reader.GetTableProperties # nullptr
    THEN f.fd.table_reader.GetTableProperties.file_creation_time
  ELSE kUnknownFileCreationTime

\* dbformat.h: InternalKeyComparator::Compare, a total order of the keys;
\* negative, zero or positive
KeyRank(k) == CASE k = "a" -> 1 [] k = "b" -> 2 [] k = "c" -> 3 [] OTHER -> 0
InternalKeyComparator_Compare(a, b) == KeyRank(a) - KeyRank(b)

\* mutant: the largest key is the end of the last range given
UpdateBoundariesForRange_lastEnd(f, start, end, seqno) ==
  [f EXCEPT
     !.smallest = IF f.smallest = "" \/ InternalKeyComparator_Compare(start, f.smallest) < 0 THEN start ELSE @,
     !.largest = end,
     !.fd.smallest_seqno = Min(@, seqno),
     !.fd.largest_seqno = Max(@, seqno)]

\* smallest.size() == 0 is the key never set
UpdateBoundariesForRange(f, start, end, seqno) ==
  [f EXCEPT
     !.smallest = IF f.smallest = "" \/ InternalKeyComparator_Compare(start, f.smallest) < 0 THEN start ELSE @,
     !.largest = IF f.largest = "" \/ InternalKeyComparator_Compare(f.largest, end) < 0 THEN end ELSE @,
     !.fd.smallest_seqno = Min(@, seqno),
     !.fd.largest_seqno = Max(@, seqno)]

(***************************************************************************)
(* VersionEdit: the object, its observers and its mutators                 *)
(***************************************************************************)
\* a freshly constructed VersionEdit (the member initialisers)
NewVersionEdit ==
  [ db_id_ |-> "",
    comparator_ |-> "",
    log_number_ |-> 0,
    prev_log_number_ |-> 0,
    next_file_number_ |-> 0,
    max_column_family_ |-> 0,
    min_log_number_to_keep_ |-> 0,
    last_sequence_ |-> 0,
    has_db_id_ |-> FALSE,
    has_comparator_ |-> FALSE,
    has_log_number_ |-> FALSE,
    has_prev_log_number_ |-> FALSE,
    has_next_file_number_ |-> FALSE,
    has_max_column_family_ |-> FALSE,
    has_min_log_number_to_keep_ |-> FALSE,
    has_last_sequence_ |-> FALSE,
    compact_cursors_ |-> <<>>,
    deleted_files_ |-> {},
    new_files_ |-> <<>>,
    new_table_files_ |-> <<>>,
    new_guard_ |-> {},
    deleted_guard_ |-> {},
    blob_file_additions_ |-> <<>>,
    blob_file_garbages_ |-> <<>>,
    wal_additions_ |-> <<>>,
    wal_deletion_ |-> 0,
    column_family_ |-> 0,
    is_column_family_drop_ |-> FALSE,
    is_column_family_add_ |-> FALSE,
    column_family_name_ |-> "",
    is_in_atomic_group_ |-> FALSE,
    remaining_entries_ |-> 0 ]

\* wal_edit.h: WalDeletion::IsEmpty(), number_ == kEmpty
WalDeletion_IsEmpty(number) == number = 0

\* dbformat.h: InternalKey::Valid(); the spec's "valid (non-empty key)"
InternalKey_Valid(k) == k # ""

BoolToInt(b) == IF b THEN 1 ELSE 0

\* NumEntries() as it would be if the shard-file list were counted too
NumEntries_withTableFiles(e) ==
  Len(e.new_files_) + Len(e.new_table_files_) + Cardinality(e.deleted_files_) +
  Len(e.blob_file_additions_) + Len(e.blob_file_garbages_) +
  Len(e.wal_additions_) + BoolToInt(~WalDeletion_IsEmpty(e.wal_deletion_))

NumEntries(e) ==
  Len(e.new_files_) + Cardinality(e.deleted_files_) +
  Len(e.blob_file_additions_) + Len(e.blob_file_garbages_) +
  Len(e.wal_additions_) + BoolToInt(~WalDeletion_IsEmpty(e.wal_deletion_))

IsWalAddition(e) == e.wal_additions_ # <<>>

IsWalDeletion(e) == ~WalDeletion_IsEmpty(e.wal_deletion_)

IsWalManipulation(e) ==
  LET entries == NumEntries(e) IN
    (entries > 0) /\
    ((entries = Len(e.wal_additions_)) \/
     (entries = BoolToInt(~WalDeletion_IsEmpty(e.wal_deletion_))))

IsColumnFamilyManipulation(e) ==
  e.is_column_family_add_ \/ e.is_column_family_drop_

IsColumnFamilyAdd(e) == e.is_column_family_add_

IsColumnFamilyDrop(e) == e.is_column_family_drop_

HasLastSequence(e) == e.has_last_sequence_

GetLastSequence(e) == e.last_sequence_

SetDBId(e, db_id) ==
  [e EXCEPT !.has_db_id_ = TRUE, !.db_id_ = db_id]
HasDbId(e) == e.has_db_id_
GetDbId(e) == e.db_id_

\* name.ToString(): the bytes of the Slice as a std::string
SetComparatorName(e, name) ==
  [e EXCEPT !.has_comparator_ = TRUE, !.comparator_ = name]
HasComparatorName(e) == e.has_comparator_
GetComparatorName(e) == e.comparator_

SetLogNumber(e, num) ==
  [e EXCEPT !.has_log_number_ = TRUE, !.log_number_ = num]
HasLogNumber(e) == e.has_log_number_
GetLogNumber(e) == e.log_number_

SetPrevLogNumber(e, num) ==
  [e EXCEPT !.has_prev_log_number_ = TRUE, !.prev_log_number_ = num]
HasPrevLogNumber(e) == e.has_prev_log_number_
GetPrevLogNumber(e) == e.prev_log_number_

SetNextFile(e, num) ==
  [e EXCEPT !.has_next_file_number_ = TRUE, !.next_file_number_ = num]
HasNextFile(e) == e.has_next_file_number_
GetNextFile(e) == e.next_file_number_

SetMaxColumnFamily(e, max_column_family) ==
  [e EXCEPT !.has_max_column_family_ = TRUE, !.max_column_family_ = max_column_family]
HasMaxColumnFamily(e) == e.has_max_column_family_
GetMaxColumnFamily(e) == e.max_column_family_

\* mutant: the watermark is stored, its has-flag is not set
SetMinLogNumberToKeep_unflagged(e, num) ==
  [e EXCEPT !.min_log_number_to_keep_ = num]

SetMinLogNumberToKeep(e, num) ==
  [e EXCEPT !.has_min_log_number_to_keep_ = TRUE, !.min_log_number_to_keep_ = num]
HasMinLogNumberToKeep(e) == e.has_min_log_number_to_keep_
GetMinLogNumberToKeep(e) == e.min_log_number_to_keep_

SetLastSequence(e, seq) ==
  [e EXCEPT !.has_last_sequence_ = TRUE, !.last_sequence_ = seq]

\* mutant: the has-flag is not consulted
AdvanceLastSequence_ifLarger(e, largest_seqno) ==
  IF largest_seqno > GetLastSequence(e)
    THEN SetLastSequence(e, largest_seqno)
    ELSE e

\* mutant: the last file added decides, whatever the sequence number held
AdvanceLastSequence_lastWins(e, largest_seqno) == SetLastSequence(e, largest_seqno)

\* the tail of every AddFile / AddTableFile overload
AdvanceLastSequence(e, largest_seqno) ==
  IF ~HasLastSequence(e) \/ largest_seqno > GetLastSequence(e)
    THEN SetLastSequence(e, largest_seqno)
    ELSE e

\* mutant: the file deleted is also taken out of the files added
DeleteFile_dropping(e, level, file) ==
  [e EXCEPT !.deleted_files_ = @ \cup {<<level, file>>},
            !.new_files_ = SelectSeq(@, LAMBDA x : ~(x[1] = level /\ GetNumber(x[2].fd) = file))]

DeleteFile(e, level, file) ==
  [e EXCEPT !.deleted_files_ = @ \cup {<<level, file>>}]

\* mutant: the sequence numbers are not asserted
SeqnoAssert_none(s, l) == TRUE

\* assert(smallest_seqno <= largest_seqno) of the AddFile / AddTableFile overloads
SeqnoAssert(s, l) == s <= l

\* AddFile(level, file, file_path_id, file_size, smallest, largest, seqnos, ...)
AddFile_fields(e, level, file, file_path_id, file_size, smallest_key, largest_key, s, l, marked_for_compaction) ==
  AdvanceLastSequence(
    [e EXCEPT !.new_files_ = Append(@,
       <<level, FileMetaData_plain(file, file_path_id, file_size, smallest_key, largest_key, s, l, marked_for_compaction, kUnknownOldestAncesterTime, kUnknownFileCreationTime)>>)],
    l)

\* mutant: the map is passed in the place of father_number_to_reference_key
AddFile_index_asFather(e, level, file, file_path_id, total_entries, merge_entries, sub, file_size, smallest_key, largest_key, s, l, marked_for_compaction) ==
  AdvanceLastSequence(
    [e EXCEPT !.new_files_ = Append(@,
       <<level, FileMetaData_merge(file, file_path_id, total_entries, total_entries,
                                   merge_entries, EmptyMap, sub, file_size, 0,
                                   smallest_key, largest_key, s, l, marked_for_compaction, kUnknownOldestAncesterTime, kUnknownFileCreationTime)>>)],
    l)

\* AddFile(level, file, file_path_id, children_ranks, total_entries,
\*         merge_entries, sub_number_to_reference_key, file_size, ...)
AddFile_index(e, level, file, file_path_id, total_entries, merge_entries, sub, file_size, smallest_key, largest_key, s, l, marked_for_compaction) ==
  AdvanceLastSequence(
    [e EXCEPT !.new_files_ = Append(@,
       <<level, FileMetaData_merge(file, file_path_id, total_entries, total_entries,
                                   merge_entries, sub, EmptyMap, file_size, 0,
                                   smallest_key, largest_key, s, l, marked_for_compaction, kUnknownOldestAncesterTime, kUnknownFileCreationTime)>>)],
    l)

\* AddFile(level, const FileMetaData& f)
AddFile_meta(e, level, f) ==
  AdvanceLastSequence([e EXCEPT !.new_files_ = Append(@, <<level, f>>)],
                      f.fd.largest_seqno)

\* AddTableFile(const FileMetaData& f)
AddTableFile_meta(e, f) ==
  AdvanceLastSequence([e EXCEPT !.new_table_files_ = Append(@, f)],
                      f.fd.largest_seqno)

\* mutant: the shard file starts with reference_entries_ = total_entries, as
\* an index file does
AddTableFile_fields_referenced(e, file, file_path_id, total_entries, file_size, smallest_key, largest_key, s, l, marked_for_compaction) ==
  AdvanceLastSequence(
    [e EXCEPT !.new_table_files_ = Append(@,
       FileMetaData_merge(file, file_path_id, total_entries, total_entries, 0, EmptyMap, EmptyMap,
                          file_size, 0, smallest_key, largest_key, s, l, marked_for_compaction, kUnknownOldestAncesterTime, kUnknownFileCreationTime))],
    l)

\* AddTableFile(file, file_path_id, total_entries, file_size, ...)
AddTableFile_fields(e, file, file_path_id, total_entries, file_size, smallest_key, largest_key, s, l, marked_for_compaction) ==
  AdvanceLastSequence(
    [e EXCEPT !.new_table_files_ = Append(@,
       FileMetaData_merge(file, file_path_id, total_entries, 0, 0, EmptyMap, EmptyMap,
                          file_size, 0, smallest_key, largest_key, s, l, marked_for_compaction, kUnknownOldestAncesterTime, kUnknownFileCreationTime))],
    l)

\* mutant: the set keeps the last pair inserted only
AddGuard_replacing(e, level, guard) ==
  [e EXCEPT !.new_guard_ = {<<level, guard>>}]

AddGuard(e, level, guard) ==
  [e EXCEPT !.new_guard_ = @ \cup {<<level, guard>>}]

DeleteGuard(e, level, guard) ==
  [e EXCEPT !.deleted_guard_ = @ \cup {<<level, guard>>}]

AddCompactCursor(e, level, cursor) ==
  [e EXCEPT !.compact_cursors_ = Append(@, <<level, cursor>>)]

\* the loop of SetCompactCursors over compact_cursors_by_level[i], i = 0..
RECURSIVE ValidCursorsFrom(_, _)
ValidCursorsFrom(by_level, i) ==
  IF i > Len(by_level) THEN <<>>
  ELSE (IF InternalKey_Valid(by_level[i])
          THEN << <<i - 1, by_level[i]>> >>
          ELSE <<>>) \o ValidCursorsFrom(by_level, i + 1)

\* mutant: the Valid() test is left out
SetCompactCursors_unfiltered(e, compact_cursors_by_level) ==
  [e EXCEPT !.compact_cursors_ =
     [i \in 1..Len(compact_cursors_by_level) |-> <<i - 1, compact_cursors_by_level[i]>>]]

SetCompactCursors(e, compact_cursors_by_level) ==
  [e EXCEPT !.compact_cursors_ = ValidCursorsFrom(compact_cursors_by_level, 1)]

AddBlobFile(e, blob_file_number) ==
  [e EXCEPT !.blob_file_additions_ = Append(@, blob_file_number)]

AddBlobFileGarbage(e, blob_file_number) ==
  [e EXCEPT !.blob_file_garbages_ = Append(@, blob_file_number)]

\* mutant: only a WAL deletion in the edit is asserted against
AddWal_assert_noDeletion(e) == WalDeletion_IsEmpty(e.wal_deletion_)

AddWal_assert(e) == NumEntries(e) = Len(e.wal_additions_)

AddWal(e, number) ==
  [e EXCEPT !.wal_additions_ = Append(@, number)]

DeleteWalsBefore_assert(e) ==
  (NumEntries(e) = 1) = ~WalDeletion_IsEmpty(e.wal_deletion_)

DeleteWalsBefore(e, number) ==
  [e EXCEPT !.wal_deletion_ = number]

SetColumnFamily(e, column_family_id) ==
  [e EXCEPT !.column_family_ = column_family_id]

\* mutant: the add marker is not asserted
ColumnFamily_assert_noAdd(e) ==
  /\ ~e.is_column_family_drop_
  /\ NumEntries(e) = 0

\* the three assert()s of AddColumnFamily and of DropColumnFamily
ColumnFamily_assert(e) ==
  /\ ~e.is_column_family_drop_
  /\ ~e.is_column_family_add_
  /\ NumEntries(e) = 0

AddColumnFamily(e, name) ==
  [e EXCEPT !.is_column_family_add_ = TRUE, !.column_family_name_ = name]

DropColumnFamily(e) ==
  [e EXCEPT !.is_column_family_drop_ = TRUE]

\* mutant: an edit with nothing remaining is not flagged
MarkAtomicGroup_whenRemaining(e, remaining_entries) ==
  [e EXCEPT !.is_in_atomic_group_ = remaining_entries > 0, !.remaining_entries_ = remaining_entries]

MarkAtomicGroup(e, remaining_entries) ==
  [e EXCEPT !.is_in_atomic_group_ = TRUE, !.remaining_entries_ = remaining_entries]

IsInAtomicGroup(e) == e.is_in_atomic_group_

GetRemainingEntries(e) == e.remaining_entries_

(***************************************************************************)
(* State                                                                   *)
(***************************************************************************)
VARIABLES
  edit,        \* the VersionEdit being built
  aborted,     \* an assert() failed: the process is gone
  left,        \* mutation-API calls the edit's producer has yet to make
  lastCall,    \* history: the last call made, and whether its asserts held
  directSeq,   \* history: SetLastSequence was called by the user of the edit
  tableVia,    \* history: the overload that added each new_table_files_ entry
  guardCalls,  \* history: the AddGuard / DeleteGuard calls made, in order
  lastArg,     \* history: the arguments recorded of the last call (<<v>> after a setter called with v), else <<>>
  fdesc,       \* a FileDescriptor object
  fmeta,       \* a FileMetaData object
  fdMade,      \* history: the constructor that made fdesc, and the seqnos given
  fmMade,      \* history: the constructor that made fmeta, and the seqnos given
  fmBase,      \* history: fmeta as it was constructed
  fmRanges,    \* history: the ranges UpdateBoundariesForRange was given since
  got,         \* the last TryGet... call on fmeta: what it returned, fmeta as it found and left it
  fdGiven,     \* history: the number and the path id fdesc was constructed from
  stage,       \* "building", then "encoded" once the edit is written, then "decoded"
  wire,        \* the encoded edit, as handed to DecodeFrom
  plain,       \* history: the same edit as EncodeTo of this version writes it
  future,      \* history: the field of a later format version that wire holds
  decoded,     \* what DecodeFrom returned: the status, and the edit it filled
  version,     \* the installed snapshot: its live index files and its shard files
  manifest,    \* the manifest log: the edits written, in order
  pending,     \* members of the atomic group being written that are still to come
  replay       \* the reader of the manifest at recovery

editVars == <<edit, aborted, left, lastCall, directSeq, tableVia, guardCalls, lastArg>>
objVars == <<fdesc, fmeta, fdMade, fmMade, fmBase, fmRanges, got, fdGiven>>
codecVars == <<stage, wire, plain, future, decoded>>
applyVars == <<version>>
logVars == <<manifest, pending, replay>>
vars == <<edit, aborted, left, lastCall, directSeq, tableVia, guardCalls, lastArg, fdesc, fmeta, fdMade, fmMade, fmBase, fmRanges, got, fdGiven, stage, wire, plain, future, decoded, version, manifest, pending, replay>>

\* what a constructor was given: no sequence numbers, or the pair <<s, l>>
NoSeqnos == [s |-> 0, l |-> 0, given |-> FALSE]
Seqnos(s, l) == [s |-> s, l |-> l, given |-> TRUE]

\* the number and path id a FileDescriptor constructor was given
Given(number, path_id) == [number |-> number, path_id |-> path_id]

\* no TryGet... call was made
NotCalled == [call |-> "none"]

\* both objects default-constructed
DefaultObjects ==
  /\ fdesc = FileDescriptor_default
  /\ fmeta = FileMetaData_default
  /\ fdMade = NoSeqnos
  /\ fmMade = NoSeqnos
  /\ fmBase = FileMetaData_default
  /\ fmRanges = {}
  /\ got = NotCalled
  /\ fdGiven = Given(0, 0)

\* the field of a later format version in wire: none, an extra top-level
\* record ("record") or an extra custom field of a kNewFile4 record ("custom")
NoFuture == [kind |-> "none", tag |-> 0]
FutureField(kind, tag) == [kind |-> kind, tag |-> tag]

\* DecodeFrom has not run
NotDecoded == [edit |-> NewVersionEdit, status |-> "none", msg |-> ""]

\* nothing written yet
NothingEncoded ==
  /\ stage = "building"
  /\ wire = <<>>
  /\ plain = <<>>
  /\ future = NoFuture
  /\ decoded = NotDecoded

\* the snapshot of an empty database: index files by number, each with its
\* level, and shard (table) files by number
EmptyVersion == [indexes |-> <<>>, tables |-> <<>>]

NothingApplied == version = EmptyVersion

\* the reader before recovery: nothing read, nothing buffered, nothing applied.
\* Edits are named by their place in the manifest.
NotReplaying == [phase |-> "writing", pos |-> 0, replay_buffer |-> <<>>, applied |-> <<>>]

NothingLogged ==
  /\ manifest = <<>>
  /\ pending = 0
  /\ replay = NotReplaying

\* a fresh edit whose producer will make at most n calls
Fresh(n) ==
  /\ NothingEncoded
  /\ NothingApplied
  /\ NothingLogged
  /\ edit = NewVersionEdit
  /\ aborted = FALSE
  /\ left = n
  /\ lastCall = "none"
  /\ directSeq = FALSE
  /\ tableVia = <<>>
  /\ guardCalls = <<>>
  /\ lastArg = <<>>

Init == Fresh(MaxCalls) /\ DefaultObjects

\* one call of a mutator: its asserts hold and the edit becomes `after`, or
\* an assert fails and the process aborts with the edit as it was
Call(name, asserts, after) ==
  /\ ~aborted
  /\ left > 0
  /\ left' = left - 1
  /\ lastCall' = name
  /\ IF asserts
       THEN edit' = after /\ aborted' = FALSE
       ELSE edit' = edit /\ aborted' = TRUE

(***************************************************************************)
(* The mutation API as actions.  The arguments that no modelled field      *)
(* depends on (temperature, checksums, timestamps, ...) are left out.      *)
(***************************************************************************)
KeepRest == UNCHANGED <<directSeq, tableVia, guardCalls, objVars, codecVars, applyVars, logVars>>
Keep == lastArg' = <<>> /\ KeepRest

CallSetLastSequence(seq) ==
  /\ Call("SetLastSequence", TRUE, SetLastSequence(edit, seq))
  /\ directSeq' = TRUE
  /\ lastArg' = <<seq>>
  /\ UNCHANGED <<tableVia, guardCalls, objVars, codecVars, applyVars, logVars>>

\* a watermark setter called with v
CallSetter(name, after, v) ==
  Call(name, TRUE, after) /\ lastArg' = <<v>> /\ KeepRest

CallSetDBId(db_id) == CallSetter("SetDBId", SetDBId(edit, db_id), db_id)
CallSetComparatorName(name) == CallSetter("SetComparatorName", SetComparatorName(edit, name), name)
CallSetLogNumber(num) == CallSetter("SetLogNumber", SetLogNumber(edit, num), num)
CallSetPrevLogNumber(num) == CallSetter("SetPrevLogNumber", SetPrevLogNumber(edit, num), num)
CallSetNextFile(num) == CallSetter("SetNextFile", SetNextFile(edit, num), num)
CallSetMaxColumnFamily(max_column_family) == CallSetter("SetMaxColumnFamily", SetMaxColumnFamily(edit, max_column_family), max_column_family)
CallSetMinLogNumberToKeep(num) == CallSetter("SetMinLogNumberToKeep", SetMinLogNumberToKeep(edit, num), num)

CallDeleteFile(level, file) ==
  Call("DeleteFile", TRUE, DeleteFile(edit, level, file)) /\ lastArg' = <<level, file>> /\ KeepRest

CallAddFile_fields(level, file, file_path_id, s, l, marked_for_compaction) ==
  /\ Call("AddFile", SeqnoAssert(s, l), AddFile_fields(edit, level, file, file_path_id, 1, "a", "b", s, l, marked_for_compaction))
  /\ Keep

CallAddFile_index(level, file, total_entries, merge_entries, sub, s, l) ==
  /\ Call("AddFile", SeqnoAssert(s, l), AddFile_index(edit, level, file, 0, total_entries, merge_entries, sub, 1, "a", "b", s, l, FALSE))
  /\ lastArg' = <<total_entries, merge_entries, sub>>
  /\ KeepRest

CallAddFile_meta(level, f) ==
  /\ Call("AddFile", SeqnoAssert(f.fd.smallest_seqno, f.fd.largest_seqno), AddFile_meta(edit, level, f))
  /\ Keep

CallAddTableFile_meta(f) ==
  /\ Call("AddTableFile", SeqnoAssert(f.fd.smallest_seqno, f.fd.largest_seqno), AddTableFile_meta(edit, f))
  /\ tableVia' = IF SeqnoAssert(f.fd.smallest_seqno, f.fd.largest_seqno) THEN Append(tableVia, "metadata") ELSE tableVia
  /\ lastArg' = <<>>
  /\ UNCHANGED <<directSeq, guardCalls, objVars, codecVars, applyVars, logVars>>

CallAddTableFile_fields(file, total_entries, s, l) ==
  /\ Call("AddTableFile", SeqnoAssert(s, l), AddTableFile_fields(edit, file, 0, total_entries, 1, "a", "b", s, l, FALSE))
  /\ tableVia' = IF SeqnoAssert(s, l) THEN Append(tableVia, "fields") ELSE tableVia
  /\ lastArg' = <<>>
  /\ UNCHANGED <<directSeq, guardCalls, objVars, codecVars, applyVars, logVars>>

CallAddGuard(level, guard) ==
  /\ Call("AddGuard", TRUE, AddGuard(edit, level, guard))
  /\ guardCalls' = Append(guardCalls, <<"AddGuard", level, guard>>)
  /\ lastArg' = <<>>
  /\ UNCHANGED <<directSeq, tableVia, objVars, codecVars, applyVars, logVars>>

CallDeleteGuard(level, guard) ==
  /\ Call("DeleteGuard", TRUE, DeleteGuard(edit, level, guard))
  /\ guardCalls' = Append(guardCalls, <<"DeleteGuard", level, guard>>)
  /\ lastArg' = <<>>
  /\ UNCHANGED <<directSeq, tableVia, objVars, codecVars, applyVars, logVars>>

CallAddCompactCursor(level, cursor) ==
  Call("AddCompactCursor", TRUE, AddCompactCursor(edit, level, cursor)) /\ Keep

CallSetCompactCursors(by_level) ==
  Call("SetCompactCursors", TRUE, SetCompactCursors(edit, by_level)) /\ Keep

CallAddBlobFile(number) ==
  Call("AddBlobFile", TRUE, AddBlobFile(edit, number)) /\ Keep

CallAddBlobFileGarbage(number) ==
  Call("AddBlobFileGarbage", TRUE, AddBlobFileGarbage(edit, number)) /\ Keep

CallAddWal(number) ==
  Call("AddWal", AddWal_assert(edit), AddWal(edit, number)) /\ lastArg' = <<number>> /\ KeepRest

CallDeleteWalsBefore(number) ==
  Call("DeleteWalsBefore", DeleteWalsBefore_assert(edit), DeleteWalsBefore(edit, number)) /\ lastArg' = <<number>> /\ KeepRest

CallSetColumnFamily(id) ==
  Call("SetColumnFamily", TRUE, SetColumnFamily(edit, id)) /\ Keep

CallAddColumnFamily(name) ==
  Call("AddColumnFamily", ColumnFamily_assert(edit), AddColumnFamily(edit, name)) /\ Keep

CallDropColumnFamily ==
  Call("DropColumnFamily", ColumnFamily_assert(edit), DropColumnFamily(edit)) /\ Keep

CallMarkAtomicGroup(remaining_entries) ==
  /\ Call("MarkAtomicGroup", TRUE, MarkAtomicGroup(edit, remaining_entries))
  /\ lastArg' = <<remaining_entries>>
  /\ KeepRest

(***************************************************************************)
(* Spec: every mutator, one edit, at most MaxCalls calls.  The kinds of    *)
(* entry vary; the files added are a few fixed ones.                       *)
(***************************************************************************)
\* a shard file as the apply step leaves it: referenced by index file 2
LiveTableFile == FileMetaData_ref(1, 0, 3, 3, EmptyMap, (2 :> 3), 1, 0, "a", "b", 0, 1, FALSE, kUnknownOldestAncesterTime, kUnknownFileCreationTime)

\* the per-level cursor vectors handed to SetCompactCursors
CursorVectors == [1..2 -> {"", "a"}]

Next ==
  \/ CallSetLastSequence(1)
  \/ \E level \in Levels : CallDeleteFile(level, 1)
  \/ CallAddFile_fields(0, 1, 0, 0, 1, FALSE)
  \/ CallAddFile_index(0, 2, 3, 1, (1 :> 3), 0, 1)
  \/ CallAddFile_meta(1, FileMetaData_plain(1, 0, 1, "a", "b", 0, 1, FALSE, kUnknownOldestAncesterTime, kUnknownFileCreationTime))
  \/ CallAddTableFile_meta(LiveTableFile)
  \/ CallAddTableFile_fields(1, 3, 0, 1)
  \/ \E level \in Levels : CallAddGuard(level, "a")
  \/ \E level \in Levels : CallDeleteGuard(level, "a")
  \/ \E cursor \in {"", "a"} : CallAddCompactCursor(0, cursor)
  \/ \E by_level \in CursorVectors : CallSetCompactCursors(by_level)
  \/ CallAddBlobFile(1)
  \/ CallAddBlobFileGarbage(1)
  \/ CallAddWal(1)
  \/ \E number \in WalNumbers : CallDeleteWalsBefore(number)
  \/ CallSetColumnFamily(1)
  \/ CallAddColumnFamily("cf")
  \/ CallDropColumnFamily

Spec == Init /\ [][Next]_vars

(***************************************************************************)
(* SpecFiles: the calls that add or delete files, with the sequence        *)
(* numbers and the metadata varied.                                        *)
(***************************************************************************)
\* the sub_number_to_reference_key maps given to the index-file overload
SubMaps == {EmptyMap, (1 :> 3)}

\* FileMetaData objects handed to the metadata overloads: a default one, and
\* shard files with and without references recorded by an earlier apply step
FileInputs ==
  {FileMetaData_default} \cup
  { FileMetaData_ref(1, 0, 3, r[1], EmptyMap, r[2], 1, 0, "a", "b", s, l, FALSE, kUnknownOldestAncesterTime, kUnknownFileCreationTime) :
      r \in {<<0, EmptyMap>>, <<3, (2 :> 3)>>}, s \in {0, MaxSeq}, l \in Seqs }

InitFiles == Fresh(MaxFileCalls) /\ DefaultObjects

NextFiles ==
  \/ \E seq \in Seqs : CallSetLastSequence(seq)
  \/ \E level \in Levels : CallDeleteFile(level, 1)
  \/ \E s \in Seqs, l \in Seqs : CallAddFile_fields(0, 1, 0, s, l, FALSE)
  \/ \E sub \in SubMaps, s \in Seqs, l \in Seqs : CallAddFile_index(0, 2, 3, 1, sub, s, l)
  \/ \E f \in FileInputs : CallAddFile_meta(1, f)
  \/ \E f \in FileInputs : CallAddTableFile_meta(f)
  \/ \E s \in Seqs, l \in Seqs : CallAddTableFile_fields(1, 3, s, l)

SpecFiles == InitFiles /\ [][NextFiles]_vars

(***************************************************************************)
(* SpecObjects: the constructors of FileDescriptor and FileMetaData.       *)
(***************************************************************************)
AllSeqs == 0..kMaxSequenceNumber

NewFileDescriptor_default ==
  fdesc' = FileDescriptor_default /\ fdMade' = NoSeqnos /\ fdGiven' = Given(0, 0) /\ UNCHANGED <<fmeta, fmMade, fmBase, fmRanges, got, editVars, codecVars, applyVars, logVars>>

NewFileDescriptor_size(number, file_size) ==
  fdesc' = FileDescriptor_size(number, 0, file_size) /\ fdMade' = NoSeqnos /\ fdGiven' = Given(number, 0) /\ UNCHANGED <<fmeta, fmMade, fmBase, fmRanges, got, editVars, codecVars, applyVars, logVars>>

NewFileDescriptor_seq(number, file_size, s, l) ==
  fdesc' = FileDescriptor_seq(number, 0, file_size, s, l) /\ fdMade' = Seqnos(s, l) /\ fdGiven' = Given(number, 0) /\ UNCHANGED <<fmeta, fmMade, fmBase, fmRanges, got, editVars, codecVars, applyVars, logVars>>

NewFileDescriptor_sub(number, file_size, sub_file_size) ==
  fdesc' = FileDescriptor_sub(number, 0, file_size, sub_file_size) /\ fdMade' = NoSeqnos /\ fdGiven' = Given(number, 0) /\ UNCHANGED <<fmeta, fmMade, fmBase, fmRanges, got, editVars, codecVars, applyVars, logVars>>

NewFileDescriptor_subseq(number, file_size, sub_file_size, s, l) ==
  fdesc' = FileDescriptor_subseq(number, 0, file_size, sub_file_size, s, l) /\ fdMade' = Seqnos(s, l) /\ fdGiven' = Given(number, 0) /\ UNCHANGED <<fmeta, fmMade, fmBase, fmRanges, got, editVars, codecVars, applyVars, logVars>>

NewFileDescriptor_full(number, sub, father, file_size, sub_file_size, s, l) ==
  fdesc' = FileDescriptor_full(number, 0, sub, father, file_size, sub_file_size, s, l) /\ fdMade' = Seqnos(s, l) /\ fdGiven' = Given(number, 0) /\ UNCHANGED <<fmeta, fmMade, fmBase, fmRanges, got, editVars, codecVars, applyVars, logVars>>

NewFileMetaData_default ==
  fmeta' = FileMetaData_default /\ fmBase' = fmeta' /\ fmRanges' = {} /\ fmMade' = NoSeqnos /\ UNCHANGED <<fdesc, fdMade, fdGiven, got, editVars, codecVars, applyVars, logVars>>

NewFileMetaData_plain(file, s, l) ==
  fmeta' = FileMetaData_plain(file, 0, 1, "a", "b", s, l, FALSE, kUnknownOldestAncesterTime, kUnknownFileCreationTime) /\ fmBase' = fmeta' /\ fmRanges' = {} /\ fmMade' = Seqnos(s, l) /\ UNCHANGED <<fdesc, fdMade, fdGiven, got, editVars, codecVars, applyVars, logVars>>

NewFileMetaData_ref(file, reference_entries, sub, father, s, l) ==
  fmeta' = FileMetaData_ref(file, 0, 3, reference_entries, sub, father, 1, 0, "a", "b", s, l, FALSE, kUnknownOldestAncesterTime, kUnknownFileCreationTime) /\ fmBase' = fmeta' /\ fmRanges' = {} /\ fmMade' = Seqnos(s, l) /\ UNCHANGED <<fdesc, fdMade, fdGiven, got, editVars, codecVars, applyVars, logVars>>

NewFileMetaData_merge(file, merge_entries, sub, father, s, l) ==
  fmeta' = FileMetaData_merge(file, 0, 3, 3, merge_entries, sub, father, 1, 0, "a", "b", s, l, FALSE, kUnknownOldestAncesterTime, kUnknownFileCreationTime) /\ fmBase' = fmeta' /\ fmRanges' = {} /\ fmMade' = Seqnos(s, l) /\ UNCHANGED <<fdesc, fdMade, fdGiven, got, editVars, codecVars, applyVars, logVars>>

\* FileDescriptor(number, path_id, file_size) with any uint64_t number and
\* any path id of the sets below
NewFileDescriptor_at(number, path_id, file_size) ==
  fdesc' = FileDescriptor_size(number, path_id, file_size) /\ fdMade' = NoSeqnos /\ fdGiven' = Given(number, path_id) /\ UNCHANGED <<fmeta, fmMade, fmBase, fmRanges, got, editVars, codecVars, applyVars, logVars>>

NextObjects ==
  \/ NewFileDescriptor_default
  \/ \E n \in FileNumbers : NewFileDescriptor_size(n, 1)
  \/ \E n \in FileNumbers, s \in AllSeqs, l \in AllSeqs : NewFileDescriptor_seq(n, 1, s, l)
  \/ \E n \in FileNumbers : NewFileDescriptor_sub(n, 1, 1)
  \/ \E s \in AllSeqs, l \in AllSeqs : NewFileDescriptor_subseq(1, 1, 1, s, l)
  \/ \E sub \in SubMaps, s \in AllSeqs, l \in AllSeqs : NewFileDescriptor_full(2, sub, EmptyMap, 1, 0, s, l)
  \/ NewFileMetaData_default
  \/ \E s \in AllSeqs, l \in AllSeqs : NewFileMetaData_plain(1, s, l)
  \/ \E father \in RefMaps, s \in AllSeqs, l \in AllSeqs : NewFileMetaData_ref(1, 0, EmptyMap, father, s, l)
  \/ \E sub \in SubMaps, s \in AllSeqs, l \in AllSeqs : NewFileMetaData_merge(2, 1, sub, EmptyMap, s, l)

SpecObjects == Init /\ [][NextObjects]_vars

\* The packing alone: numbers up to twice the mask and path ids up to twice
\* what the bits above the number hold, so that both sides of each limit occur.
PackNumbers == 0..(2 * kFileNumberMask + 1)
PathIds == 0..(2 * 2^PathBits - 1)

NextPacking ==
  \/ NewFileDescriptor_default
  \/ \E number \in PackNumbers, path_id \in PathIds : NewFileDescriptor_at(number, path_id, 1)

SpecPacking == Init /\ [][NextPacking]_vars

\* Ranges given to one FileMetaData, in every order.  The file is constructed
\* with its keys unset or set; the keys of a range may be empty as well.
MaxRanges == 2
BaseKeys == {"", "b"}
RangeKeys == {"", "a", "c"}

NewFileMetaData_keys(smallest_key, largest_key, s, l) ==
  fmeta' = FileMetaData_plain(1, 0, 1, smallest_key, largest_key, s, l, FALSE, kUnknownOldestAncesterTime, kUnknownFileCreationTime) /\ fmBase' = fmeta' /\ fmRanges' = {} /\ fmMade' = Seqnos(s, l) /\ UNCHANGED <<fdesc, fdMade, fdGiven, got, editVars, codecVars, applyVars, logVars>>

CallUpdateBoundariesForRange(start, end, seqno) ==
  /\ Cardinality(fmRanges \cup {<<start, end, seqno>>}) <= MaxRanges
  /\ fmeta' = UpdateBoundariesForRange(fmeta, start, end, seqno)
  /\ fmRanges' = fmRanges \cup {<<start, end, seqno>>}
  /\ UNCHANGED <<fdesc, fdMade, fmMade, fmBase, fdGiven, got, editVars, codecVars, applyVars, logVars>>

NextBoundaries ==
  \/ NewFileMetaData_default
  \/ \E smallest_key \in BaseKeys, largest_key \in BaseKeys, s \in {1, kMaxSequenceNumber}, l \in {0, 1} :
       NewFileMetaData_keys(smallest_key, largest_key, s, l)
  \/ \E start \in RangeKeys, end \in RangeKeys, seqno \in Seqs : CallUpdateBoundariesForRange(start, end, seqno)

SpecBoundaries == Init /\ [][NextBoundaries]_vars

\* The two time getters, on files constructed with every pair of times of
\* 0..MaxTime and with no table reader, a reader without properties or a
\* reader with properties pinned (the table cache sets fd.table_reader).
MaxTime == 2
Times == 0..MaxTime
TableReaders ==
  { nullptr, TableReader(nullptr),
    TableReader([null |-> FALSE, file_creation_time |-> 2, creation_time |-> 1]),
    TableReader([null |-> FALSE, file_creation_time |-> 1, creation_time |-> 0]) }

NewFileMetaData_times(oldest_ancester_time, file_creation_time) ==
  fmeta' = FileMetaData_plain(1, 0, 1, "a", "b", 0, 1, FALSE, oldest_ancester_time, file_creation_time) /\ fmBase' = fmeta' /\ fmRanges' = {} /\ fmMade' = Seqnos(0, 1) /\ UNCHANGED <<fdesc, fdMade, fdGiven, got, editVars, codecVars, applyVars, logVars>>

PinTableReader(table_reader) ==
  /\ fmeta' = [fmeta EXCEPT !.fd.table_reader = table_reader]
  /\ UNCHANGED <<fdesc, fdMade, fmMade, fmBase, fmRanges, fdGiven, got, editVars, codecVars, applyVars, logVars>>

\* the getters are not const, and assign nothing
CallTryGetOldestAncesterTime ==
  /\ fmeta' = fmeta
  /\ got' = [call |-> "TryGetOldestAncesterTime", after |-> fmeta', value |-> TryGetOldestAncesterTime(fmeta), before |-> fmeta]
  /\ UNCHANGED <<fdesc, fdMade, fmMade, fmBase, fmRanges, fdGiven, editVars, codecVars, applyVars, logVars>>

CallTryGetFileCreationTime ==
  /\ fmeta' = fmeta
  /\ got' = [call |-> "TryGetFileCreationTime", after |-> fmeta', value |-> TryGetFileCreationTime(fmeta), before |-> fmeta]
  /\ UNCHANGED <<fdesc, fdMade, fmMade, fmBase, fmRanges, fdGiven, editVars, codecVars, applyVars, logVars>>

NextTimes ==
  \/ \E oldest_ancester_time \in Times, file_creation_time \in Times : NewFileMetaData_times(oldest_ancester_time, file_creation_time)
  \/ \E table_reader \in TableReaders : PinTableReader(table_reader)
  \/ CallTryGetOldestAncesterTime
  \/ CallTryGetFileCreationTime

SpecTimes == Init /\ [][NextTimes]_vars

(***************************************************************************)
(* The tagged binary protocol.  version_edit.h declares EncodeTo,          *)
(* DecodeFrom and DecodeNewFile4From and defines the tags and the two      *)
(* masks; the bodies are in version_edit.cc.  The stream is modelled one   *)
(* varint or one byte per element; a length-prefixed slice is its length   *)
(* followed by its bytes.  Of the records, kLastSequence, kDeletedFile and *)
(* kNewFile4 are modelled, and of the custom fields of kNewFile4, kPathId  *)
(* and kNeedCompaction; the streams of the model hold no other known tag.  *)
(***************************************************************************)
kLastSequence == 4
kDeletedFile == 6
kNewFile4 == 103
kTagSafeIgnoreMask == 8192
kTerminate == 1
kNeedCompaction == 2
kCustomTagNonSafeIgnoreMask == 64
kPathId == 65

\* the other enumerators of Tag; one without an initialiser is the one
\* before it plus 1
kComparator == 1
kLogNumber == 2
kNextFileNumber == 3
kCompactCursor == 5
kNewFile == 7
kPrevLogNumber == 9
kMinLogNumberToKeep == 10
kNewFile2 == 100
kNewFile3 == 102
kColumnFamily == 200
kColumnFamilyAdd == 201
kColumnFamilyDrop == 202
kMaxColumnFamily == 203
kInAtomicGroup == 300
kBlobFileAddition == 400
kBlobFileGarbage == kBlobFileAddition + 1
\* mutant: the forward compatible tags go on from kBlobFileGarbage
kDbId_afterBlobFileGarbage == kBlobFileGarbage + 1
kDbId == kTagSafeIgnoreMask + 1
kBlobFileAddition_DEPRECATED == kDbId + 1
kBlobFileGarbage_DEPRECATED == kBlobFileAddition_DEPRECATED + 1
kWalAddition == kBlobFileGarbage_DEPRECATED + 1
kWalDeletion == kWalAddition + 1
kFullHistoryTsLow == kWalDeletion + 1
kWalAddition2 == kFullHistoryTsLow + 1
kWalDeletion2 == kWalAddition2 + 1

\* the other enumerators of NewFileCustomTag
kMinLogNumberToKeepHack == 3
kOldestBlobFileNumber == 4
kOldestAncesterTime == 5
kFileCreationTime == 6
kFileChecksum == 7
kFileChecksumFuncName == 8
kTemperature == 9
kMinTimestamp == 10
kMaxTimestamp == 11
kUniqueId == 12

\* enum Tag without its mask: the tags of the records, in the order of the enum
Tag ==
  <<kComparator, kLogNumber, kNextFileNumber, kLastSequence, kCompactCursor,
    kDeletedFile, kNewFile, kPrevLogNumber, kMinLogNumberToKeep,
    kNewFile2, kNewFile3, kNewFile4,
    kColumnFamily, kColumnFamilyAdd, kColumnFamilyDrop, kMaxColumnFamily,
    kInAtomicGroup, kBlobFileAddition, kBlobFileGarbage,
    kDbId, kBlobFileAddition_DEPRECATED, kBlobFileGarbage_DEPRECATED,
    kWalAddition, kWalDeletion, kFullHistoryTsLow, kWalAddition2, kWalDeletion2>>

\* enum NewFileCustomTag without its mask
NewFileCustomTag ==
  <<kTerminate, kNeedCompaction, kMinLogNumberToKeepHack, kOldestBlobFileNumber,
    kOldestAncesterTime, kFileCreationTime, kFileChecksum, kFileChecksumFuncName,
    kTemperature, kMinTimestamp, kMaxTimestamp, kUniqueId, kPathId>>

\* mutant: every tag from kTagSafeIgnoreMask up is taken as ignorable
TagSafelyIgnorable_range(tag) == tag >= kTagSafeIgnoreMask

\* "A future Tag is ignored by doing '&' between Tag and kTagSafeIgnoreMask":
\* tag & kTagSafeIgnoreMask != 0
TagSafelyIgnorable(tag) == (tag \div kTagSafeIgnoreMask) % 2 = 1

\* mutant: every custom tag from kCustomTagNonSafeIgnoreMask up is refused
CustomTagNonSafeIgnorable_range(custom_tag) == custom_tag >= kCustomTagNonSafeIgnoreMask

\* "If this bit for the custom tag is set, opening DB should fail if we
\* don't know this field": custom_tag & kCustomTagNonSafeIgnoreMask != 0
CustomTagNonSafeIgnorable(custom_tag) == (custom_tag \div kCustomTagNonSafeIgnoreMask) % 2 = 1

(***************************************************************************)
(* SpecTags: the two tests applied to the enumerators of the tag tables,   *)
(* at most MaxTagReads of them one after the other.                        *)
(***************************************************************************)
\* the most tags read in one run
MaxTagReads == 3

Range(s) == {s[i] : i \in DOMAIN s}

\* a record tag is read and tested with tag & kTagSafeIgnoreMask
ReadTag(tag) ==
  /\ left > 0
  /\ left' = left - 1
  /\ lastArg' = <<tag>>
  /\ got' = [call |-> "Tag", value |-> TagSafelyIgnorable(tag)]
  /\ UNCHANGED <<edit, aborted, lastCall, directSeq, tableVia, guardCalls>>
  /\ UNCHANGED <<fdesc, fmeta, fdMade, fmMade, fmBase, fmRanges, fdGiven>>
  /\ UNCHANGED <<codecVars, applyVars, logVars>>

\* a custom tag of a new-file record is read and tested with
\* custom_tag & kCustomTagNonSafeIgnoreMask
ReadCustomTag(custom_tag) ==
  /\ left > 0
  /\ left' = left - 1
  /\ lastArg' = <<custom_tag>>
  /\ got' = [call |-> "NewFileCustomTag", value |-> CustomTagNonSafeIgnorable(custom_tag)]
  /\ UNCHANGED <<edit, aborted, lastCall, directSeq, tableVia, guardCalls>>
  /\ UNCHANGED <<fdesc, fmeta, fdMade, fmMade, fmBase, fmRanges, fdGiven>>
  /\ UNCHANGED <<codecVars, applyVars, logVars>>

InitTags == Fresh(MaxTagReads) /\ DefaultObjects

NextTags ==
  \/ \E tag \in Range(Tag) : ReadTag(tag)
  \/ \E custom_tag \in Range(NewFileCustomTag) : ReadCustomTag(custom_tag)

SpecTags == InitTags /\ [][NextTags]_vars

\* the bytes of an internal key, and the key of these bytes
EncodeKey(k) == CASE k = "a" -> <<97>> [] k = "b" -> <<98>> [] OTHER -> <<>>
DecodeKey(bytes) == CASE bytes = <<97>> -> "a" [] bytes = <<98>> -> "b" [] OTHER -> ""

PutLengthPrefixedSlice(bytes) == <<Len(bytes)>> \o bytes

\* std::set<std::pair<int, uint64_t>> iterates in lexicographic order
PairLess(a, b) == a[1] < b[1] \/ (a[1] = b[1] /\ a[2] < b[2])

RECURSIVE DeletedFileRecords(_)
DeletedFileRecords(files) ==
  IF files = {} THEN <<>>
  ELSE LET first == CHOOSE a \in files : \A b \in files \ {a} : PairLess(a, b)
       IN << <<kDeletedFile, first[1], first[2]>> >> \o DeletedFileRecords(files \ {first})

\* one kNewFile4 record: the fixed fields, the custom fields, kTerminate.
\* `later` is what a later format version writes ahead of the custom fields
\* known here (nothing, in this version).
NewFile4Record(level, f, later) ==
  <<kNewFile4, level, GetNumber(f.fd), f.fd.file_size>> \o
  PutLengthPrefixedSlice(EncodeKey(f.smallest)) \o
  PutLengthPrefixedSlice(EncodeKey(f.largest)) \o
  <<f.fd.smallest_seqno, f.fd.largest_seqno>> \o
  later \o
  (IF GetPathId(f.fd) # 0 THEN <<kPathId, 1, GetPathId(f.fd)>> ELSE <<>>) \o
  (IF f.marked_for_compaction THEN <<kNeedCompaction, 1, 1>> ELSE <<>>) \o
  <<kTerminate>>

\* the records of an edit, in the order EncodeTo writes them; the new file
\* at index `at` carries the custom field `later`
EditRecords(e, at, later) ==
  (IF e.has_last_sequence_ THEN << <<kLastSequence, e.last_sequence_>> >> ELSE <<>>) \o
  DeletedFileRecords(e.deleted_files_) \o
  [i \in 1..Len(e.new_files_) |->
     NewFile4Record(e.new_files_[i][1], e.new_files_[i][2], IF i = at THEN later ELSE <<>>)]

RECURSIVE Flatten(_)
Flatten(records) ==
  IF records = <<>> THEN <<>> ELSE Head(records) \o Flatten(Tail(records))

\* EncodeTo returns false for a new file with an invalid boundary key
CanEncode(e) ==
  \A i \in 1..Len(e.new_files_) :
    InternalKey_Valid(e.new_files_[i][2].smallest) /\ InternalKey_Valid(e.new_files_[i][2].largest)

EncodeTo(e) == Flatten(EditRecords(e, 0, <<>>))

\* a record, or a custom field, of a later format version: tag, length, payload
FutureRecord(tag, payload) == <<tag>> \o PutLengthPrefixedSlice(payload)

InsertAt(records, pos, r) ==
  SubSeq(records, 1, pos) \o <<r>> \o SubSeq(records, pos + 1, Len(records))

\* GetVarint32 / GetVarint64: the next number of the input, if there is one
GetVarint(input) ==
  IF input = <<>>
    THEN [value |-> 0, ok |-> FALSE, rest |-> input]
    ELSE [value |-> Head(input), ok |-> TRUE, rest |-> Tail(input)]

GetLengthPrefixedSlice(input) ==
  LET n == GetVarint(input) IN
    IF n.ok /\ n.value <= Len(n.rest)
      THEN [value |-> SubSeq(n.rest, 1, n.value), ok |-> TRUE,
            rest |-> SubSeq(n.rest, n.value + 1, Len(n.rest))]
      ELSE [value |-> <<>>, ok |-> FALSE, rest |-> input]

\* a length-prefixed slice that is not empty, taken as an internal key
GetInternalKey(input) ==
  LET s == GetLengthPrefixedSlice(input) IN
    IF s.ok /\ Len(s.value) > 0
      THEN [value |-> DecodeKey(s.value), ok |-> TRUE, rest |-> s.rest]
      ELSE [value |-> "", ok |-> FALSE, rest |-> input]

\* the loop over the custom fields of a kNewFile4 record
RECURSIVE DecodeCustomFields(_, _, _)
DecodeCustomFields(input, path_id, marked_for_compaction) ==
  LET custom_tag == GetVarint(input)
      field == GetLengthPrefixedSlice(custom_tag.rest)
      Return(msg, rest) == [path_id |-> path_id, marked_for_compaction |-> marked_for_compaction,
                            msg |-> msg, rest |-> rest]
  IN
    IF ~custom_tag.ok THEN Return("new-file4 custom field", input)
    ELSE IF custom_tag.value = kTerminate THEN Return("", custom_tag.rest)
    ELSE IF ~field.ok THEN Return("new-file4 custom field length prefixed slice error", input)
    ELSE IF custom_tag.value = kPathId THEN
      IF Len(field.value) # 1 THEN Return("path_id field wrong size", input)
      ELSE IF field.value[1] > 3 THEN Return("path_id wrong vaue", input)
      ELSE DecodeCustomFields(field.rest, field.value[1], marked_for_compaction)
    ELSE IF custom_tag.value = kNeedCompaction THEN
      IF Len(field.value) # 1 THEN Return("need_compaction field wrong size", input)
      ELSE DecodeCustomFields(field.rest, path_id, field.value[1] = 1)
    ELSE IF CustomTagNonSafeIgnorable(custom_tag.value)
      THEN Return("new-file4 custom field not supported", input)
      ELSE DecodeCustomFields(field.rest, path_id, marked_for_compaction)

\* what a decoding step returns: the error message ("" for none), the input
\* left, the edit so far
Decoded(msg, input, e) == [edit |-> e, msg |-> msg, input |-> input]

DecodeNewFile4From(input, e) ==
  LET level == GetVarint(input)
      number == GetVarint(level.rest)
      file_size == GetVarint(number.rest)
      smallest == GetInternalKey(file_size.rest)
      largest == GetInternalKey(smallest.rest)
      smallest_seqno == GetVarint(largest.rest)
      largest_seqno == GetVarint(smallest_seqno.rest)
      custom == DecodeCustomFields(largest_seqno.rest, 0, FALSE)
      f == [FileMetaData_default EXCEPT
              !.smallest = smallest.value,
              !.largest = largest.value,
              !.marked_for_compaction = custom.marked_for_compaction,
              !.fd = FileDescriptor_seq(number.value, custom.path_id, file_size.value,
                                        smallest_seqno.value, largest_seqno.value)]
  IN
    IF ~(level.ok /\ number.ok /\ file_size.ok /\ smallest.ok /\ largest.ok /\
         smallest_seqno.ok /\ largest_seqno.ok)
      THEN Decoded("new-file4 entry", input, e)
    ELSE IF custom.msg # "" THEN Decoded(custom.msg, custom.rest, e)
    ELSE Decoded("", custom.rest, [e EXCEPT !.new_files_ = Append(@, <<level.value, f>>)])

\* the switch of DecodeFrom, for one tag read
DecodeRecord(tag, input, e) ==
  CASE tag = kLastSequence ->
         LET v == GetVarint(input) IN
           IF v.ok
             THEN Decoded("", v.rest, [e EXCEPT !.last_sequence_ = v.value, !.has_last_sequence_ = TRUE])
             ELSE Decoded("last sequence number", input, e)
    [] tag = kDeletedFile ->
         LET level == GetVarint(input)
             number == GetVarint(level.rest)
         IN IF level.ok /\ number.ok
              THEN Decoded("", number.rest, [e EXCEPT !.deleted_files_ = @ \cup {<<level.value, number.value>>}])
              ELSE Decoded("deleted file", input, e)
    [] tag = kNewFile4 -> DecodeNewFile4From(input, e)
    [] OTHER ->
         IF TagSafelyIgnorable(tag)
           THEN LET field == GetLengthPrefixedSlice(input) IN
                  IF field.ok
                    THEN Decoded("", field.rest, e)
                    ELSE Decoded("safely ignoreable tag length error", input, e)
           ELSE Decoded("unknown tag", input, e)

\* the loop of DecodeFrom: while no error and a tag can be read
RECURSIVE DecodeRecords(_, _)
DecodeRecords(input, e) ==
  LET tag == GetVarint(input) IN
    IF ~tag.ok THEN Decoded("", input, e)
    ELSE LET r == DecodeRecord(tag.value, tag.rest, e) IN
           IF r.msg # "" THEN r ELSE DecodeRecords(r.input, r.edit)

\* DecodeFrom: Clear(), the loop, and the status
DecodeFrom(src) ==
  LET r == DecodeRecords(src, NewVersionEdit)
      msg == IF r.msg = "" /\ r.input # <<>> THEN "invalid tag" ELSE r.msg
  IN [edit |-> r.edit, status |-> IF msg = "" THEN "OK" ELSE "Corruption", msg |-> msg]

(***************************************************************************)
(* SpecDecode: an edit is built, written, and read back.  The writer is    *)
(* this version's EncodeTo, or a later version's, which writes one record  *)
(* or one custom field more than this version knows.                       *)
(***************************************************************************)
MaxWireCalls == 2

\* tags no record of this version has: 11, kWalDeletion2 + 1, 1 << 14,
\* (1 << 14) + (1 << 13) + 1
FutureTags == {11, 8201, 16384, 24577}

\* custom tags no field of this version has: kUniqueId + 1, kPathId + 1,
\* 1 << 7, (1 << 7) + (1 << 6)
FutureCustomTags == {13, 66, 128, 192}

\* payloads of a later version's record: empty, or bytes that read as a
\* kLastSequence record when they are not skipped
FuturePayloads == {<<>>, <<kLastSequence, 0>>}

\* payloads of a later version's custom field: empty, or a byte that reads
\* as kTerminate when it is not skipped
FutureCustomPayloads == {<<>>, <<kTerminate>>}

CallEncodeTo ==
  /\ ~aborted
  /\ stage = "building"
  /\ CanEncode(edit)
  /\ stage' = "encoded"
  /\ wire' = EncodeTo(edit)
  /\ plain' = EncodeTo(edit)
  /\ future' = NoFuture
  /\ UNCHANGED <<decoded, editVars, objVars, applyVars, logVars>>

\* a later version writes the edit with one more record, its pos-th
FutureEncodeTo_record(tag, payload, pos) ==
  /\ ~aborted
  /\ stage = "building"
  /\ CanEncode(edit)
  /\ pos \in 0..Len(EditRecords(edit, 0, <<>>))
  /\ stage' = "encoded"
  /\ wire' = Flatten(InsertAt(EditRecords(edit, 0, <<>>), pos, FutureRecord(tag, payload)))
  /\ plain' = EncodeTo(edit)
  /\ future' = FutureField("record", tag)
  /\ UNCHANGED <<decoded, editVars, objVars, applyVars, logVars>>

\* a later version writes the edit with one more custom field in the
\* kNewFile4 record of its at-th new file
FutureEncodeTo_customField(custom_tag, payload, at) ==
  /\ ~aborted
  /\ stage = "building"
  /\ CanEncode(edit)
  /\ at \in 1..Len(edit.new_files_)
  /\ stage' = "encoded"
  /\ wire' = Flatten(EditRecords(edit, at, FutureRecord(custom_tag, payload)))
  /\ plain' = EncodeTo(edit)
  /\ future' = FutureField("custom", custom_tag)
  /\ UNCHANGED <<decoded, editVars, objVars, applyVars, logVars>>

CallDecodeFrom ==
  /\ stage = "encoded"
  /\ stage' = "decoded"
  /\ decoded' = DecodeFrom(wire)
  /\ UNCHANGED <<wire, plain, future, editVars, objVars, applyVars, logVars>>

InitDecode == Fresh(MaxWireCalls) /\ DefaultObjects

NextDecode ==
  \/ CallSetLastSequence(MaxSeq)
  \/ \E file \in FileNumbers : CallDeleteFile(0, file)
  \/ \E file \in FileNumbers, file_path_id \in {0, 1}, marked \in BOOLEAN : CallAddFile_fields(MaxLevel, file, file_path_id, 0, 1, marked)
  \/ CallEncodeTo
  \/ \E tag \in FutureTags, payload \in FuturePayloads, pos \in 0..(MaxWireCalls + 1) : FutureEncodeTo_record(tag, payload, pos)
  \/ \E custom_tag \in FutureCustomTags, payload \in FutureCustomPayloads, at \in 1..MaxWireCalls : FutureEncodeTo_customField(custom_tag, payload, at)
  \/ CallDecodeFrom

SpecDecode == InitDecode /\ [][NextDecode]_vars

(***************************************************************************)
(* The apply step.  version_edit.h names it (SaveTableFilesTo, in the      *)
(* comment of AddTableFile) and holds the two maps it works on; its code   *)
(* is in the version builder.  An apply folds one edit into the installed  *)
(* snapshot: the deleted index files go, the new files come, and every     *)
(* shard file's father_number_to_reference_key is derived from the         *)
(* sub_number_to_reference_key maps of the index files then live.          *)
(***************************************************************************)
MapGet(map, k) == IF k \in DOMAIN map THEN map[k] ELSE 0

\* the map without the keys in K, and with k set to v
MapRemove(map, K) ==
  IF DOMAIN map \subseteq K THEN EmptyMap ELSE [j \in DOMAIN map \ K |-> map[j]]

MapPut(map, k, v) == [j \in DOMAIN map \cup {k} |-> IF j = k THEN v ELSE map[j]]

RECURSIVE MapTotal(_)
MapTotal(map) ==
  IF DOMAIN map = {} THEN 0
  ELSE LET k == CHOOSE j \in DOMAIN map : TRUE
       IN map[k] + MapTotal(MapRemove(map, {k}))

\* the index files of the snapshot that the edit deletes, by level and number
DeletedIndexes(v, e) ==
  {n \in DOMAIN v.indexes : <<v.indexes[n][1], n>> \in e.deleted_files_}

RECURSIVE AddIndexes(_, _, _)
AddIndexes(indexes, new_files, i) ==
  IF i > Len(new_files) THEN indexes
  ELSE AddIndexes(MapPut(indexes, GetNumber(new_files[i][2].fd), new_files[i]), new_files, i + 1)

RECURSIVE AddTables(_, _, _)
AddTables(tables, new_table_files, i) ==
  IF i > Len(new_table_files) THEN tables
  ELSE AddTables(MapPut(tables, GetNumber(new_table_files[i].fd), new_table_files[i]), new_table_files, i + 1)

\* the index files that hold keys of the shard file, each with its count
DeriveFather(indexes, shard) ==
  LET fathers == {n \in DOMAIN indexes : shard \in DOMAIN indexes[n][2].fd.sub_number_to_reference_key}
  IN IF fathers = {} THEN EmptyMap
     ELSE [n \in fathers |-> indexes[n][2].fd.sub_number_to_reference_key[shard]]

\* mutant: the derived counts are added to the counts the file carries
SaveTableFilesTo_added(indexes, tables) ==
  [t \in DOMAIN tables |->
     LET derived == DeriveFather(indexes, t)
         carried == tables[t].fd.father_number_to_reference_key
         summed == [n \in DOMAIN derived \cup DOMAIN carried |-> MapGet(derived, n) + MapGet(carried, n)]
     IN [tables[t] EXCEPT
           !.fd.father_number_to_reference_key = IF DOMAIN summed = {} THEN EmptyMap ELSE summed,
           !.reference_entries_ = MapTotal(summed)]]

\* every shard file gets the map derived from the live index files, and
\* reference_entries_ its total, whatever the file carried before
SaveTableFilesTo(indexes, tables) ==
  [t \in DOMAIN tables |->
     LET derived == DeriveFather(indexes, t)
     IN [tables[t] EXCEPT
           !.fd.father_number_to_reference_key = derived,
           !.reference_entries_ = MapTotal(derived)]]

\* the snapshot after the edit
ApplyEdit(v, e) ==
  LET indexes == AddIndexes(MapRemove(v.indexes, DeletedIndexes(v, e)), e.new_files_, 1)
      tables == AddTables(v.tables, e.new_table_files_, 1)
  IN [indexes |-> indexes,
      tables |-> IF DOMAIN tables = {} THEN EmptyMap ELSE SaveTableFilesTo(indexes, tables)]

\* the edit is applied and the snapshot installed; the next job starts a
\* fresh edit
ApplyAndInstall ==
  /\ ~aborted
  /\ edit # NewVersionEdit
  /\ version' = ApplyEdit(version, edit)
  /\ edit' = NewVersionEdit
  /\ lastCall' = "none"
  /\ directSeq' = FALSE
  /\ tableVia' = <<>>
  /\ guardCalls' = <<>>
  /\ lastArg' = <<>>
  /\ UNCHANGED <<aborted, left, objVars, codecVars, logVars>>

(***************************************************************************)
(* SpecApply: flush and compaction jobs build edits of index files and     *)
(* shard files, and the edits are applied one after the other.             *)
(***************************************************************************)
MaxApplyCalls == 4

\* index file 3 holds 3 keys of shard 1 and 5 of shard 2; index file 4 one
\* key of shard 1
IndexInputs == { <<0, 3, (1 :> 3) @@ (2 :> 5)>>, <<1, 4, (1 :> 1)>> }

\* a shard file handed over with the counts an earlier snapshot gave it
StaleTableFile == FileMetaData_ref(1, 0, 3, 3, EmptyMap, (3 :> 3), 1, 0, "a", "b", 0, 1, FALSE, kUnknownOldestAncesterTime, kUnknownFileCreationTime)

InitApply == Fresh(MaxApplyCalls) /\ DefaultObjects

NextApply ==
  \/ \E x \in IndexInputs : CallAddFile_index(x[1], x[2], 8, 0, x[3], 0, 1)
  \/ \E x \in IndexInputs : CallDeleteFile(x[1], x[2])
  \/ \E file \in FileNumbers : CallAddTableFile_fields(file, 5, 0, 1)
  \/ CallAddTableFile_meta(StaleTableFile)
  \/ ApplyAndInstall

SpecApply == InitApply /\ [][NextApply]_vars

(***************************************************************************)
(* Atomic groups.  version_edit.h has MarkAtomicGroup and its observers    *)
(* and names the reader of the manifest that uses them, the friend class   *)
(* AtomicGroupReadBuffer; the reader's code is in the version set.  The    *)
(* writer appends edits to the manifest, the members of a group one after  *)
(* the other with remaining = k, k-1, ..., 0, and may crash at any point;  *)
(* at recovery the reader takes the edits in log order.                    *)
(***************************************************************************)
MaxManifest == 4
MaxRemaining == 2

\* the writer marks the edit as a member of a group: the first member of a
\* new group, or the next member of the group being written
WriterMarksMember(remaining_entries) ==
  /\ replay.phase = "writing"
  /\ ~IsInAtomicGroup(edit)
  /\ pending > 0 => remaining_entries = pending - 1
  /\ CallMarkAtomicGroup(remaining_entries)

\* the writer appends the edit to the manifest and starts a fresh one; while
\* a group is being written only its members are appended
LogEdit ==
  /\ ~aborted
  /\ replay.phase = "writing"
  /\ Len(manifest) < MaxManifest
  /\ pending > 0 => IsInAtomicGroup(edit)
  /\ manifest' = Append(manifest, edit)
  /\ pending' = IF IsInAtomicGroup(edit) THEN GetRemainingEntries(edit) ELSE 0
  /\ edit' = NewVersionEdit
  /\ lastCall' = "none"
  /\ directSeq' = FALSE
  /\ tableVia' = <<>>
  /\ guardCalls' = <<>>
  /\ lastArg' = <<>>
  /\ UNCHANGED <<aborted, left, replay, objVars, codecVars, applyVars>>

\* the process stops, between two edits or in the middle of a group, and the
\* database is opened again
CrashAndRecover ==
  /\ replay.phase = "writing"
  /\ replay' = [replay EXCEPT !.phase = "recovering"]
  /\ UNCHANGED <<manifest, pending, editVars, objVars, codecVars, applyVars>>

\* mutant: a member of a group is applied as soon as it is read
AtomicGroupReadBuffer_AddEdit_eager(r, e, i) ==
  [r EXCEPT !.pos = i, !.applied = Append(@, i)]

\* the reader takes edit e, the i-th of the manifest: an edit outside a group
\* is applied; a member of a group is buffered, and the buffer is applied
\* and cleared when the member with no remaining entries is read
AtomicGroupReadBuffer_AddEdit(r, e, i) ==
  IF IsInAtomicGroup(e)
    THEN IF GetRemainingEntries(e) = 0
           THEN [r EXCEPT !.pos = i,
                          !.applied = @ \o Append(r.replay_buffer, i),
                          !.replay_buffer = <<>>]
           ELSE [r EXCEPT !.pos = i, !.replay_buffer = Append(@, i)]
    ELSE [r EXCEPT !.pos = i, !.applied = Append(@, i)]

ReplayEdit ==
  /\ replay.phase = "recovering"
  /\ replay.pos < Len(manifest)
  /\ replay' = AtomicGroupReadBuffer_AddEdit(replay, manifest[replay.pos + 1], replay.pos + 1)
  /\ UNCHANGED <<manifest, pending, editVars, objVars, codecVars, applyVars>>

InitReplay == Fresh(MaxManifest) /\ DefaultObjects

NextReplay ==
  \/ \E remaining_entries \in 0..MaxRemaining : WriterMarksMember(remaining_entries)
  \/ LogEdit
  \/ CrashAndRecover
  \/ ReplayEdit

SpecReplay == InitReplay /\ [][NextReplay]_vars

(***************************************************************************)
(* SpecGuards: AddGuard and DeleteGuard, with levels and guard keys        *)
(* repeated and mixed.                                                     *)
(***************************************************************************)
MaxGuardCalls == 3

GuardKeys == {"a", "b"}

InitGuards == Fresh(MaxGuardCalls) /\ DefaultObjects

NextGuards ==
  \/ \E level \in Levels, guard \in GuardKeys : CallAddGuard(level, guard)
  \/ \E level \in Levels, guard \in GuardKeys : CallDeleteGuard(level, guard)

SpecGuards == InitGuards /\ [][NextGuards]_vars

(***************************************************************************)
(* SpecWatermarks: the eight watermark setters, each with its zero (or     *)
(* empty) value and another one, next to calls that add and delete files.  *)
(***************************************************************************)
MaxWatermarkCalls == 3

InitWatermarks == Fresh(MaxWatermarkCalls) /\ DefaultObjects

NextWatermarks ==
  \/ \E db_id \in {"", "id"} : CallSetDBId(db_id)
  \/ \E name \in {"", "cmp"} : CallSetComparatorName(name)
  \/ \E num \in {0, 1} : CallSetLogNumber(num)
  \/ \E num \in {0, 1} : CallSetPrevLogNumber(num)
  \/ \E num \in {0, 1} : CallSetNextFile(num)
  \/ \E max_column_family \in {0, 1} : CallSetMaxColumnFamily(max_column_family)
  \/ \E num \in {0, 1} : CallSetMinLogNumberToKeep(num)
  \/ \E seq \in {0, 1} : CallSetLastSequence(seq)
  \/ CallAddFile_fields(0, 1, 0, 0, 1, FALSE)
  \/ CallDeleteFile(0, 1)

SpecWatermarks == InitWatermarks /\ [][NextWatermarks]_vars

(***************************************************************************)
(* SpecEntries: every mutator of the edit, the watermark setters and       *)
(* MarkAtomicGroup included, at most MaxCalls calls.                       *)
(***************************************************************************)
NextEntries ==
  \/ CallSetDBId("id")
  \/ CallSetComparatorName("cmp")
  \/ CallSetLogNumber(1)
  \/ CallSetPrevLogNumber(1)
  \/ CallSetNextFile(1)
  \/ CallSetMaxColumnFamily(1)
  \/ CallSetMinLogNumberToKeep(1)
  \/ CallSetLastSequence(1)
  \/ \E level \in Levels : CallDeleteFile(level, 1)
  \/ CallAddFile_fields(0, 1, 0, 0, 1, FALSE)
  \/ CallAddFile_index(0, 2, 3, 1, (1 :> 3), 0, 1)
  \/ CallAddTableFile_meta(LiveTableFile)
  \/ CallAddTableFile_fields(1, 3, 0, 1)
  \/ CallAddGuard(0, "a")
  \/ CallDeleteGuard(0, "a")
  \/ CallAddCompactCursor(0, "a")
  \/ CallSetCompactCursors(<<"a", "">>)
  \/ CallAddBlobFile(1)
  \/ CallAddBlobFileGarbage(1)
  \/ CallAddWal(1)
  \/ CallDeleteWalsBefore(1)
  \/ CallSetColumnFamily(1)
  \/ CallMarkAtomicGroup(1)

SpecEntries == Init /\ [][NextEntries]_vars

(***************************************************************************)
(* SpecAtomicGroup: MarkAtomicGroup with every count of 0..MaxRemaining,   *)
(* repeated, next to calls that change other parts of the edit.            *)
(***************************************************************************)
NextAtomicGroup ==
  \/ \E remaining_entries \in 0..MaxRemaining : CallMarkAtomicGroup(remaining_entries)
  \/ CallAddFile_fields(0, 1, 0, 0, 1, FALSE)
  \/ \E level \in Levels : CallDeleteFile(level, 1)
  \/ \E num \in {0, 1} : CallSetLogNumber(num)
  \/ CallSetColumnFamily(1)

SpecAtomicGroup == Init /\ [][NextAtomicGroup]_vars

(***************************************************************************)
(* Claims                                                                  *)
(***************************************************************************)

\* C1: in every reachable state of a VersionEdit, IsWalAddition() and
\* IsWalDeletion() are not both true (AddWal and DeleteWalsBefore never
\* coexist in one edit).
C1_WalAddDeleteExclusive == ~(IsWalAddition(edit) /\ IsWalDeletion(edit))

\* C2: in every reachable state, IsColumnFamilyManipulation() implies
\* NumEntries() == 0.
C2_ColumnFamilyEditHasNoEntries ==
  IsColumnFamilyManipulation(edit) => NumEntries(edit) = 0

\* some file, blob or WAL mutation was made on the edit and left an entry
HoldsFileBlobOrWalEntry(e) ==
  \/ e.new_files_ # <<>>
  \/ e.new_table_files_ # <<>>
  \/ e.deleted_files_ # {}
  \/ e.blob_file_additions_ # <<>>
  \/ e.blob_file_garbages_ # <<>>
  \/ e.wal_additions_ # <<>>
  \/ ~WalDeletion_IsEmpty(e.wal_deletion_)

\* C3: AddColumnFamily / DropColumnFamily called on an edit that already holds
\* an added file, an added table file, a deleted file, a blob entry or a WAL
\* operation fails its assertion and sets no column-family marker.
C3_ColumnFamilyAfterMutationFails ==
  [][ (HoldsFileBlobOrWalEntry(edit) /\ lastCall' \in {"AddColumnFamily", "DropColumnFamily"})
        => (aborted' /\ edit' = edit) ]_vars

\* the largest_seqno of every file held in new_files_ and new_table_files_
LargestSeqnos(e) ==
  { e.new_files_[i][2].fd.largest_seqno : i \in 1..Len(e.new_files_) } \cup
  { e.new_table_files_[i].fd.largest_seqno : i \in 1..Len(e.new_table_files_) }

SetMax(S) == CHOOSE m \in S : \A x \in S : x <= m

\* C4: on an edit on which SetLastSequence was never called directly, after
\* N >= 1 AddFile / AddTableFile calls GetLastSequence() is the maximum of the
\* files' largest sequence numbers (and HasLastSequence() is true).
C4_LastSequenceIsMax ==
  (~directSeq /\ LargestSeqnos(edit) # {}) =>
    (HasLastSequence(edit) /\ GetLastSequence(edit) = SetMax(LargestSeqnos(edit)))

\* C4 witness: a table file was added after a file with a larger sequence
\* number, and last_sequence_ stayed at the larger one.
C4_Witness ==
  /\ ~directSeq /\ ~aborted /\ lastCall = "AddTableFile"
  /\ edit.new_files_ # <<>>
  /\ edit.new_table_files_[Len(edit.new_table_files_)].fd.largest_seqno < GetLastSequence(edit)

\* C5 (as claimed): every constructed FileDescriptor and FileMetaData has
\* smallest_seqno <= largest_seqno.
C5_ConstructedSeqnosOrdered ==
  /\ fdesc.smallest_seqno <= fdesc.largest_seqno
  /\ fmeta.fd.smallest_seqno <= fmeta.fd.largest_seqno

\* the sequence bounds a constructor must have stored, from what it was given
StoresBounds(fd, made) ==
  IF made.given
    THEN fd.smallest_seqno = made.s /\ fd.largest_seqno = made.l
    ELSE fd.smallest_seqno = kMaxSequenceNumber /\ fd.largest_seqno = 0

\* C5 (amended): no constructor fails or clamps: a constructor given sequence
\* numbers stores exactly those, ordered or not; the default constructor and
\* the constructors that take none yield the empty range
\* smallest_seqno = kMaxSequenceNumber, largest_seqno = 0.
C5_ConstructorsStoreBoundsAsGiven ==
  StoresBounds(fdesc, fdMade) /\ StoresBounds(fmeta.fd, fmMade)

\* C5 witness: both objects were constructed from inverted bounds and hold them.
C5_Witness ==
  /\ fdMade.given /\ fdMade.s > fdMade.l /\ fdesc.smallest_seqno > fdesc.largest_seqno
  /\ fmMade.given /\ fmMade.s > fmMade.l /\ fmeta.fd.smallest_seqno > fmeta.fd.largest_seqno

\* C6: IsWalManipulation() is true only if the edit holds WAL operations and
\* nothing else: no added file, added table file, deleted file, guard
\* addition or deletion, compact cursor or blob entry.
C6_WalManipulationIsExclusive ==
  IsWalManipulation(edit) =>
    /\ edit.new_files_ = <<>>
    /\ edit.new_table_files_ = <<>>
    /\ edit.deleted_files_ = {}
    /\ edit.new_guard_ = {}
    /\ edit.deleted_guard_ = {}
    /\ edit.compact_cursors_ = <<>>
    /\ edit.blob_file_additions_ = <<>>
    /\ edit.blob_file_garbages_ = <<>>

StartsUnreferenced(f) ==
  f.fd.father_number_to_reference_key = EmptyMap /\ f.reference_entries_ = 0

\* C7 (as claimed): every element of GetNewTableFiles(), whichever overload
\* added it, has an empty father_number_to_reference_key and
\* reference_entries_ == 0.
C7_TableFilesStartUnreferenced ==
  \A i \in 1..Len(edit.new_table_files_) : StartsUnreferenced(edit.new_table_files_[i])

\* C7 (amended): every element added through AddTableFile(fields...) has an
\* empty father_number_to_reference_key and reference_entries_ == 0; an element
\* added through AddTableFile(metadata) is the caller's FileMetaData as it is.
C7_FieldsTableFilesStartUnreferenced ==
  /\ Len(tableVia) = Len(edit.new_table_files_)
  /\ \A i \in 1..Len(edit.new_table_files_) :
        tableVia[i] = "fields" => StartsUnreferenced(edit.new_table_files_[i])

\* C7 witness: one element came from each overload; the one from the metadata
\* overload carries references, the one from the fields overload none.
C7_Witness ==
  /\ tableVia = <<"metadata", "fields">>
  /\ ~StartsUnreferenced(edit.new_table_files_[1])
  /\ edit.new_table_files_[2].total_entries_ > 0
  /\ StartsUnreferenced(edit.new_table_files_[2])

AllCursorsValid(e) ==
  \A i \in 1..Len(e.compact_cursors_) : InternalKey_Valid(e.compact_cursors_[i][2])

\* C8 (as claimed): after any sequence of AddCompactCursor and
\* SetCompactCursors calls every pair of GetCompactCursors() has a valid key.
C8_OnlyValidCursorsRetained == AllCursorsValid(edit)

\* C8 (amended): right after SetCompactCursors every pair of
\* GetCompactCursors() has a valid key (the invalid cursors of the vector, and
\* everything held before, are dropped); AddCompactCursor appends the cursor
\* it is given, valid or not.
C8_SetCompactCursorsKeepsValidOnly ==
  lastCall = "SetCompactCursors" => AllCursorsValid(edit)

\* C8 witness: SetCompactCursors, the second call on the edit, was given an
\* invalid cursor for level 0 and a valid one for level 1 and kept only the
\* latter.
C8_Witness ==
  /\ lastCall = "SetCompactCursors"
  /\ left = MaxCalls - 2
  /\ edit.compact_cursors_ = << <<1, "a">> >>

\* DecodeFrom read a stream that a later version wrote with one more record
ReadFutureRecord == stage = "decoded" /\ future.kind = "record"

\* DecodeFrom succeeded and filled the edit as it does from the stream
\* without the addition
DecodedAsPlain == decoded.status = "OK" /\ decoded.edit = DecodeFrom(plain).edit

\* C9 (as stated): decoding an edit with one extra top-level record of an
\* unknown tag t succeeds for every t >= 8192, whether or not
\* t & kTagSafeIgnoreMask is non-zero: the record is skipped by its length
\* prefix and all other fields decode as for the edit without the record.
C9_UnknownTagFrom8192Skipped ==
  (ReadFutureRecord /\ future.tag >= 8192) => DecodedAsPlain

\* C9 (amended): an extra top-level record of an unknown tag t is skipped by
\* its length prefix, all other fields decoding as for the edit without it,
\* exactly when t & kTagSafeIgnoreMask is non-zero (bit 13 of t is set); for
\* any other unknown t, below 8192 or above, decoding fails with the
\* corruption "unknown tag".
C9_UnknownTagSkippedIffMaskBitSet ==
  ReadFutureRecord =>
    IF (future.tag \div 8192) % 2 = 1
      THEN DecodedAsPlain
      ELSE decoded.status = "Corruption" /\ decoded.msg = "unknown tag"

\* an unknown tag above 1 << 14 with bit 13 set was skipped, the payload that
\* reads as a record included, and a new file and a last sequence number
\* were decoded around it
C9_Witness ==
  /\ ReadFutureRecord
  /\ future.tag = 24577
  /\ Len(wire) = Len(plain) + 4
  /\ decoded.status = "OK"
  /\ Len(decoded.edit.new_files_) = 1
  /\ decoded.edit.has_last_sequence_
  /\ decoded.edit.last_sequence_ = 1

\* DecodeFrom read a stream whose kNewFile4 record a later version wrote with
\* one more custom field
ReadFutureCustomField == stage = "decoded" /\ future.kind = "custom"

UnsupportedCustomField ==
  decoded.status = "Corruption" /\ decoded.msg = "new-file4 custom field not supported"

\* C10 (as stated): decoding a kNewFile4 record with an unknown custom tag c
\* fails with a corruption error for every c >= 64, whether or not
\* c & kCustomTagNonSafeIgnoreMask is non-zero, and for every unknown c < 64
\* skips the field by its length prefix and continues decoding.
C10_UnknownCustomTagFrom64Fails ==
  ReadFutureCustomField =>
    IF future.tag >= 64 THEN UnsupportedCustomField ELSE DecodedAsPlain

\* C10 (amended): decoding a kNewFile4 record with an unknown custom tag c
\* fails with a corruption error exactly when c & kCustomTagNonSafeIgnoreMask
\* is non-zero (bit 6 of c is set); for any other unknown c, below 64 or
\* above (128, say), the field is skipped by its length prefix and decoding
\* continues.
C10_UnknownCustomTagFailsIffMaskBitSet ==
  ReadFutureCustomField =>
    IF (future.tag \div 64) % 2 = 1 THEN UnsupportedCustomField ELSE DecodedAsPlain

\* an unknown custom tag with bit 6 clear was skipped, the payload that reads
\* as kTerminate included, and the path id and the compaction mark written
\* after it were decoded
C10_Witness ==
  /\ ReadFutureCustomField
  /\ future.tag = 128
  /\ Len(wire) = Len(plain) + 3
  /\ decoded.status = "OK"
  /\ Len(decoded.edit.new_files_) = 1
  /\ GetPathId(decoded.edit.new_files_[1][2].fd) = 1
  /\ decoded.edit.new_files_[1][2].marked_for_compaction

\* the keys of the shard that the live index files of the snapshot hold
RECURSIVE ReferencesFrom(_, _, _)
ReferencesFrom(v, live, shard) ==
  IF live = {} THEN 0
  ELSE LET n == CHOOSE j \in live : TRUE
       IN MapGet(v.indexes[n][2].fd.sub_number_to_reference_key, shard) +
          ReferencesFrom(v, live \ {n}, shard)

LastOfGroup(i) == i + GetRemainingEntries(manifest[i])

IsApplied(i) == \E k \in 1..Len(replay.applied) : replay.applied[k] = i

\* C14: for a manifest with an atomic group whose members are marked
\* remaining = k, k-1, ..., 0, the applier applies none of the group's edits
\* before it has read the member with remaining = 0 and with it applies them
\* all; of a group the log ends before (truncated), no edit is ever applied.
C14_AtomicGroupAllOrNothing ==
  \A i \in 1..Len(manifest) :
    IsInAtomicGroup(manifest[i]) => (IsApplied(i) <=> replay.pos >= LastOfGroup(i))

\* a group of three was applied whole, and the first member of a group that
\* the crash cut short was read and not applied
C14_Witness ==
  /\ Len(manifest) = 4
  /\ IsInAtomicGroup(manifest[1]) /\ GetRemainingEntries(manifest[1]) = 2
  /\ IsInAtomicGroup(manifest[4]) /\ GetRemainingEntries(manifest[4]) > 0
  /\ replay.pos = 4
  /\ replay.applied = <<1, 2, 3>>

\* the (level, guard key) pairs of the calls of one kind made so far
PairsInserted(op) ==
  { <<guardCalls[k][2], guardCalls[k][3]>> : k \in {j \in 1..Len(guardCalls) : guardCalls[j][1] = op} }

\* C15: AddGuard and DeleteGuard are idempotent and order-independent:
\* GetNewGuards() and GetDeletedGuards() are the sets of the pairs inserted,
\* whatever the order and the number of the calls, and one more call with a
\* pair, or two calls in the other order, give the same edit.
C15_GuardsAreSetsOfPairsInserted ==
  /\ edit.new_guard_ = PairsInserted("AddGuard")
  /\ edit.deleted_guard_ = PairsInserted("DeleteGuard")
  /\ \A level \in Levels, guard \in GuardKeys :
       /\ AddGuard(AddGuard(edit, level, guard), level, guard) = AddGuard(edit, level, guard)
       /\ DeleteGuard(DeleteGuard(edit, level, guard), level, guard) = DeleteGuard(edit, level, guard)
       /\ \A level2 \in Levels, guard2 \in GuardKeys :
            /\ AddGuard(AddGuard(edit, level, guard), level2, guard2) =
                 AddGuard(AddGuard(edit, level2, guard2), level, guard)
            /\ DeleteGuard(DeleteGuard(edit, level, guard), level2, guard2) =
                 DeleteGuard(DeleteGuard(edit, level2, guard2), level, guard)
            /\ DeleteGuard(AddGuard(edit, level, guard), level2, guard2) =
                 AddGuard(DeleteGuard(edit, level2, guard2), level, guard)

\* the same pair was added twice, another one in between: two guards
C15_Witness ==
  /\ Len(guardCalls) = 3
  /\ guardCalls[1] = <<"AddGuard", 0, "a">>
  /\ guardCalls[2] = <<"AddGuard", 1, "b">>
  /\ guardCalls[3] = <<"AddGuard", 0, "a">>
  /\ edit.new_guard_ = {<<0, "a">>, <<1, "b">>}

\* C16: DeleteFile(level, number) changes only the deleted-files set, by
\* inserting the pair (no change when it is there already): new_files_ and
\* new_table_files_ with the maps and refs of the files they hold, the last
\* sequence and its flag, guards, cursors and every other field stay.
C16_DeleteFileChangesDeletedFilesOnly ==
  [][ (left' = left - 1 /\ lastCall' = "DeleteFile")
        => /\ ~aborted'
           /\ \E pair \in edit'.deleted_files_ :
                edit' = [edit EXCEPT !.deleted_files_ = @ \cup {pair}] ]_vars

\* file 1 was added at level 0, a shard file with references was added, and
\* file 1 of level 0 was then deleted: both are still held
C16_Witness ==
  /\ lastCall = "DeleteFile"
  /\ left = MaxCalls - 3
  /\ edit.deleted_files_ = {<<0, 1>>}
  /\ Len(edit.new_files_) = 1
  /\ edit.new_files_[1][1] = 0 /\ GetNumber(edit.new_files_[1][2].fd) = 1
  /\ Len(edit.new_table_files_) = 1
  /\ edit.new_table_files_[1].fd.father_number_to_reference_key # EmptyMap
  /\ edit.has_last_sequence_

\* C17: for a file number n <= kFileNumberMask and a path id p that fits the
\* bits above the number (p < 2^PathBits, 16 in the source), a FileDescriptor
\* built from (n, p) returns GetNumber() = n and GetPathId() = p, and its
\* packed value is n | (p << NumberBits), the shift not overflowing the word
\* (the two halves share no bit, so the OR is their sum).
C17_PackedNumberAndPathIdRoundTrip ==
  (fdGiven.number <= 2^NumberBits - 1 /\ fdGiven.path_id < 2^PathBits)
    => /\ GetNumber(fdesc) = fdGiven.number
       /\ GetPathId(fdesc) = fdGiven.path_id
       /\ fdGiven.path_id * 2^NumberBits < 2^(NumberBits + PathBits)
       /\ fdesc.packed_number_and_path_id = fdGiven.number + fdGiven.path_id * 2^NumberBits

\* the largest number with the largest path id: every bit of the word is set
C17_Witness ==
  /\ fdGiven = Given(2^NumberBits - 1, 2^PathBits - 1)
  /\ fdesc.packed_number_and_path_id = 2^(NumberBits + PathBits) - 1
  /\ GetNumber(fdesc) = 2^NumberBits - 1
  /\ GetPathId(fdesc) = 2^PathBits - 1

\* the keys that are set (non-empty), and the least and greatest of a set of
\* keys in the comparator's order
SetKeys(keys) == { k \in keys : k # "" }
LeastKey(keys) == CHOOSE k \in keys : \A other \in keys : KeyRank(k) <= KeyRank(other)
GreatestKey(keys) == CHOOSE k \in keys : \A other \in keys : KeyRank(k) >= KeyRank(other)
SetMin(S) == CHOOSE x \in S : \A y \in S : x <= y

\* C18: UpdateBoundariesForRange is order-independent: after ranges with
\* non-empty keys were applied to a FileMetaData, in whatever order, smallest
\* is the comparator-minimum of the starts and of the prior smallest if set,
\* largest the comparator-maximum of the ends and of the prior largest if
\* set, the seqno bounds the min / max over the seqnos and the prior bounds,
\* and nothing else of the file has changed; so no boundary is narrowed.
C18_BoundariesAreMinMaxOfRanges ==
  (fmRanges # {} /\ \A r \in fmRanges : r[1] # "" /\ r[2] # "")
    => fmeta = [fmBase EXCEPT
                  !.smallest = LeastKey({ r[1] : r \in fmRanges } \cup SetKeys({fmBase.smallest})),
                  !.largest = GreatestKey({ r[2] : r \in fmRanges } \cup SetKeys({fmBase.largest})),
                  !.fd.smallest_seqno = SetMin({ r[3] : r \in fmRanges } \cup {fmBase.fd.smallest_seqno}),
                  !.fd.largest_seqno = SetMax({ r[3] : r \in fmRanges } \cup {fmBase.fd.largest_seqno})]

\* two ranges were given to a file whose keys were set: one widens it below,
\* the other above, and the seqno bounds were widened on both sides
C18_Witness ==
  /\ fmBase.smallest = "b" /\ fmBase.largest = "b"
  /\ fmBase.fd.smallest_seqno = 1 /\ fmBase.fd.largest_seqno = 1
  /\ fmRanges = {<<"a", "a", 0>>, <<"c", "c", 2>>}
  /\ fmeta.smallest = "a" /\ fmeta.largest = "c"
  /\ fmeta.fd.smallest_seqno = 0 /\ fmeta.fd.largest_seqno = 2

\* C19: IsColumnFamilyAdd() and IsColumnFamilyDrop() are never both true:
\* AddColumnFamily or DropColumnFamily called on an edit that already carries
\* either marker fails its assertion and changes nothing.
C19_ColumnFamilyAddDropExclusive ==
  [][ /\ ~(IsColumnFamilyAdd(edit') /\ IsColumnFamilyDrop(edit'))
      /\ ( /\ IsColumnFamilyAdd(edit) \/ IsColumnFamilyDrop(edit)
           /\ left' = left - 1
           /\ lastCall' \in {"AddColumnFamily", "DropColumnFamily"} )
           => (aborted' /\ edit' = edit) ]_vars

\* DropColumnFamily was called on an edit that carried the add marker and no
\* entry: the call failed and the edit has the add marker only
C19_Witness ==
  /\ aborted
  /\ lastCall = "DropColumnFamily"
  /\ IsColumnFamilyAdd(edit) /\ ~IsColumnFamilyDrop(edit)
  /\ NumEntries(edit) = 0
  /\ edit.new_table_files_ = <<>>

\* a table reader is attached to the file and its properties are non-null
HasProperties(f) ==
  f.fd.table_reader # nullptr /\ f.fd.table_reader.GetTableProperties # nullptr

\* the value of the priority rule: the stored field if non-zero; otherwise
\* the reader's value if there are properties; otherwise 0
ByPriority(value, f, stored, of_reader) ==
  /\ stored # 0 => value = stored
  /\ (stored = 0 /\ HasProperties(f)) => value = of_reader
  /\ (stored = 0 /\ ~HasProperties(f)) => value = 0

\* C20: TryGetOldestAncesterTime and TryGetFileCreationTime return the stored
\* field if it is non-zero; otherwise the value of the attached table
\* reader's properties (creation_time for the oldest ancester time,
\* file_creation_time for the file creation time) if a reader is attached
\* and its properties are non-null; otherwise 0.  Neither modifies the
\* FileMetaData.
C20_TryGetTimesByPriority ==
  /\ got.call = "TryGetOldestAncesterTime" =>
       /\ got.after = got.before
       /\ ByPriority(got.value, got.before, got.before.oldest_ancester_time,
                     IF HasProperties(got.before) THEN got.before.fd.table_reader.GetTableProperties.creation_time ELSE 0)
  /\ got.call = "TryGetFileCreationTime" =>
       /\ got.after = got.before
       /\ ByPriority(got.value, got.before, got.before.file_creation_time,
                     IF HasProperties(got.before) THEN got.before.fd.table_reader.GetTableProperties.file_creation_time ELSE 0)

\* the oldest ancester time is stored and a reader with other properties is
\* pinned: the stored value was returned
C20_Witness ==
  /\ got.call = "TryGetOldestAncesterTime"
  /\ got.before.oldest_ancester_time = 2
  /\ HasProperties(got.before)
  /\ got.before.fd.table_reader.GetTableProperties.creation_time = 1
  /\ got.value = 2

\* the files held in new_files_ and new_table_files_
FilesHeld(e) ==
  { e.new_files_[i][2] : i \in 1..Len(e.new_files_) } \cup
  { e.new_table_files_[i] : i \in 1..Len(e.new_table_files_) }

\* C21: every FileMetaData held in GetNewFiles() or GetNewTableFiles() has
\* fd.smallest_seqno <= fd.largest_seqno: an AddFile / AddTableFile call that
\* fails its assertion (the one on the sequence numbers is its only one)
\* appends nothing and leaves the last sequence as it was.
C21_FilesHeldHaveOrderedSeqnos ==
  [][ /\ \A f \in FilesHeld(edit') : f.fd.smallest_seqno <= f.fd.largest_seqno
      /\ (left' = left - 1 /\ lastCall' \in {"AddFile", "AddTableFile"} /\ aborted')
           => edit' = edit ]_vars

\* a file was added, then AddTableFile was called with smallest > largest:
\* the call failed, no table file is held and the last sequence is the file's
C21_Witness ==
  /\ aborted
  /\ lastCall = "AddTableFile"
  /\ Len(edit.new_files_) = 1
  /\ edit.new_table_files_ = <<>>
  /\ edit.has_last_sequence_
  /\ edit.last_sequence_ = edit.new_files_[1][2].fd.largest_seqno

\* the file a successful AddFile / AddTableFile step appended
FileAppended(before, after) ==
  IF Len(after.new_files_) > Len(before.new_files_)
    THEN after.new_files_[Len(after.new_files_)][2]
    ELSE after.new_table_files_[Len(after.new_table_files_)]

\* C22: AddFile and AddTableFile never lower GetLastSequence(): a value set
\* before that is >= the file's largest seqno stays, otherwise the value
\* becomes the file's largest seqno; after a successful AddFile /
\* AddTableFile HasLastSequence() is true, also when the largest seqno is 0.
C22_AddFileNeverLowersLastSequence ==
  [][ (left' = left - 1 /\ lastCall' \in {"AddFile", "AddTableFile"} /\ ~aborted')
        => LET largest_seqno == FileAppended(edit, edit').fd.largest_seqno
           IN /\ edit'.has_last_sequence_
              /\ edit.has_last_sequence_ => edit'.last_sequence_ >= edit.last_sequence_
              /\ (edit.has_last_sequence_ /\ edit.last_sequence_ >= largest_seqno)
                   => edit'.last_sequence_ = edit.last_sequence_
              /\ ~(edit.has_last_sequence_ /\ edit.last_sequence_ >= largest_seqno)
                   => edit'.last_sequence_ = largest_seqno ]_vars

\* SetLastSequence(MaxSeq), then a file with largest seqno 0 was added: the
\* value stays
C22_Witness ==
  /\ lastCall = "AddFile"
  /\ ~aborted
  /\ directSeq
  /\ Len(edit.new_files_) = 1
  /\ edit.new_files_[1][2].fd.largest_seqno = 0
  /\ edit.has_last_sequence_
  /\ edit.last_sequence_ = MaxSeq

\* no has-flag of a watermark is set
NoWatermarkSet(e) ==
  /\ ~HasDbId(e) /\ ~HasComparatorName(e) /\ ~HasLogNumber(e) /\ ~HasPrevLogNumber(e)
  /\ ~HasNextFile(e) /\ ~HasMinLogNumberToKeep(e) /\ ~HasLastSequence(e) /\ ~HasMaxColumnFamily(e)

\* the step is a call of the setter `name`: the edit becomes `expected`, and
\* the has-flag and the getter read after the call are as given
SetterStep(name, expected, has, get) ==
  (left' = left - 1 /\ lastCall' = name)
    => (~aborted' /\ edit' = expected /\ has /\ get = lastArg'[1])

\* C23: unset differs from zero for every watermark field: on a fresh edit
\* every Has*() is false; after SetX(v), for any v including 0 and the empty
\* string, HasX() is true and GetX() = v; SetX changes no other field and no
\* other has-flag of the edit.
C23_WatermarkUnsetDiffersFromZero ==
  /\ NoWatermarkSet(edit)
  /\ [][ /\ SetterStep("SetDBId", [edit EXCEPT !.has_db_id_ = TRUE, !.db_id_ = lastArg'[1]],
                        HasDbId(edit'), GetDbId(edit'))
         /\ SetterStep("SetComparatorName", [edit EXCEPT !.has_comparator_ = TRUE, !.comparator_ = lastArg'[1]],
                        HasComparatorName(edit'), GetComparatorName(edit'))
         /\ SetterStep("SetLogNumber", [edit EXCEPT !.has_log_number_ = TRUE, !.log_number_ = lastArg'[1]],
                        HasLogNumber(edit'), GetLogNumber(edit'))
         /\ SetterStep("SetPrevLogNumber", [edit EXCEPT !.has_prev_log_number_ = TRUE, !.prev_log_number_ = lastArg'[1]],
                        HasPrevLogNumber(edit'), GetPrevLogNumber(edit'))
         /\ SetterStep("SetNextFile", [edit EXCEPT !.has_next_file_number_ = TRUE, !.next_file_number_ = lastArg'[1]],
                        HasNextFile(edit'), GetNextFile(edit'))
         /\ SetterStep("SetMinLogNumberToKeep", [edit EXCEPT !.has_min_log_number_to_keep_ = TRUE, !.min_log_number_to_keep_ = lastArg'[1]],
                        HasMinLogNumberToKeep(edit'), GetMinLogNumberToKeep(edit'))
         /\ SetterStep("SetLastSequence", [edit EXCEPT !.has_last_sequence_ = TRUE, !.last_sequence_ = lastArg'[1]],
                        HasLastSequence(edit'), GetLastSequence(edit'))
         /\ SetterStep("SetMaxColumnFamily", [edit EXCEPT !.has_max_column_family_ = TRUE, !.max_column_family_ = lastArg'[1]],
                        HasMaxColumnFamily(edit'), GetMaxColumnFamily(edit')) ]_vars

\* a file was added (which sets the last sequence), the db id was set to the
\* empty string, and SetMinLogNumberToKeep(0) was called last: three flags
\* are set, the others are not
C23_Witness ==
  /\ lastCall = "SetMinLogNumberToKeep" /\ lastArg = <<0>>
  /\ HasMinLogNumberToKeep(edit) /\ GetMinLogNumberToKeep(edit) = 0
  /\ HasDbId(edit) /\ GetDbId(edit) = ""
  /\ HasLastSequence(edit) /\ Len(edit.new_files_) = 1
  /\ ~HasLogNumber(edit) /\ ~HasPrevLogNumber(edit) /\ ~HasNextFile(edit)
  /\ ~HasComparatorName(edit) /\ ~HasMaxColumnFamily(edit)

\* C24: the index-file AddFile overload stores the caller's
\* sub_number_to_reference_key map unchanged in the file it appends, with an
\* empty father_number_to_reference_key map, sub_file_size 0,
\* reference_entries_ equal to total_entries and merge_entries_ as given; no
\* later call of the mutation API alters the map stored in a file added before.
C24_IndexFileStoresShardRefCounts ==
  [][ /\ (left' = left - 1 /\ lastCall' = "AddFile" /\ lastArg' # <<>> /\ ~aborted')
           => LET f == edit'.new_files_[Len(edit'.new_files_)][2]
              IN /\ Len(edit'.new_files_) = Len(edit.new_files_) + 1
                 /\ f.fd.sub_number_to_reference_key = lastArg'[3]
                 /\ f.fd.father_number_to_reference_key = EmptyMap
                 /\ f.fd.sub_file_size = 0
                 /\ f.total_entries_ = lastArg'[1]
                 /\ f.reference_entries_ = lastArg'[1]
                 /\ f.merge_entries_ = lastArg'[2]
      /\ left' = left - 1
           => \A i \in 1..Len(edit.new_files_) :
                /\ i <= Len(edit'.new_files_)
                /\ edit'.new_files_[i][2].fd.sub_number_to_reference_key
                     = edit.new_files_[i][2].fd.sub_number_to_reference_key ]_vars

\* an index file was added with a non-empty map, then a file of the same
\* level was deleted and a table file added: the map is as it was given
C24_Witness ==
  /\ lastCall = "AddTableFile" /\ ~aborted
  /\ Len(edit.new_files_) = 1
  /\ edit.new_files_[1][2].fd.sub_number_to_reference_key = (1 :> 3)
  /\ edit.new_files_[1][2].merge_entries_ = 1
  /\ edit.deleted_files_ # {}
  /\ Len(edit.new_table_files_) = 1

\* C25: a fresh VersionEdit is not in an atomic group; after
\* MarkAtomicGroup(r), IsInAtomicGroup() is true and GetRemainingEntries() = r
\* for every r including 0; a later MarkAtomicGroup overwrites r; the call
\* changes no other field of the edit.
C25_MarkAtomicGroupSetsFlagAndCount ==
  /\ ~IsInAtomicGroup(edit)
  /\ [][ SetterStep("MarkAtomicGroup",
                     [edit EXCEPT !.is_in_atomic_group_ = TRUE, !.remaining_entries_ = lastArg'[1]],
                     IsInAtomicGroup(edit'), GetRemainingEntries(edit')) ]_vars

\* a file was added, the edit was marked, and marked again with 0 remaining:
\* it is in a group with 0 remaining, and holds the file
C25_Witness ==
  /\ lastCall = "MarkAtomicGroup" /\ lastArg = <<0>>
  /\ left = MaxCalls - 3
  /\ IsInAtomicGroup(edit) /\ GetRemainingEntries(edit) = 0
  /\ Len(edit.new_files_) = 1
  /\ edit.deleted_files_ = {} /\ ~HasLogNumber(edit) /\ edit.column_family_ = 0

\* the edit holds a counted entry that is no WAL addition: an added file, a
\* deleted file, a blob addition, a blob garbage record or a WAL deletion
HoldsEntryOtherThanWalAddition(e) ==
  \/ e.new_files_ # <<>>
  \/ e.deleted_files_ # {}
  \/ e.blob_file_additions_ # <<>>
  \/ e.blob_file_garbages_ # <<>>
  \/ e.wal_deletion_ # 0

\* C26: AddWal succeeds only on an edit all of whose counted entries are WAL
\* additions: on an edit that holds an added file, a deleted file, a blob
\* addition, a blob garbage record or a WAL deletion it fails its assertion
\* and GetWalAdditions() is unchanged; on an edit holding only WAL additions
\* (or nothing) it appends exactly one addition at the end.
C26_AddWalOnlyAmongWalAdditions ==
  [][ (left' = left - 1 /\ lastCall' = "AddWal")
        => IF HoldsEntryOtherThanWalAddition(edit)
             THEN aborted' /\ edit' = edit
             ELSE /\ ~aborted'
                  /\ edit' = [edit EXCEPT !.wal_additions_ = edit.wal_additions_ \o <<lastArg'[1]>>] ]_vars

\* a WAL was added, a file deleted, and AddWal called again: the call failed
\* and the one addition is held
C26_Witness ==
  /\ aborted /\ lastCall = "AddWal"
  /\ edit.wal_additions_ = <<1>>
  /\ edit.deleted_files_ # {}
  /\ edit.new_files_ = <<>> /\ edit.wal_deletion_ = 0

\* C27: after any successful DeleteWalsBefore(n) with a non-empty n the WAL
\* deletion is the only counted entry of the edit: NumEntries() = 1, and
\* IsWalDeletion() and IsWalManipulation() are true (the call fails on every
\* edit that holds added or deleted files, blob entries or WAL additions,
\* however many).
C27_WalDeletionIsOnlyEntry ==
  [][ (left' = left - 1 /\ lastCall' = "DeleteWalsBefore" /\ ~aborted' /\ lastArg'[1] # 0)
        => /\ NumEntries(edit') = 1
           /\ IsWalDeletion(edit')
           /\ IsWalManipulation(edit') ]_vars

\* the calls that add no counted entry
UncountedCalls ==
  {"SetDBId", "SetComparatorName", "SetLogNumber", "SetPrevLogNumber", "SetNextFile",
   "SetMaxColumnFamily", "SetMinLogNumberToKeep", "SetLastSequence",
   "AddGuard", "DeleteGuard", "AddCompactCursor", "SetCompactCursors",
   "SetColumnFamily", "MarkAtomicGroup", "AddTableFile"}

\* the entries of the edit, counted list by list
CountedEntries(e) ==
  Len(e.new_files_) + Cardinality(e.deleted_files_) +
  Len(e.blob_file_additions_) + Len(e.blob_file_garbages_) +
  Len(e.wal_additions_) + (IF e.wal_deletion_ # 0 THEN 1 ELSE 0)

\* C28: NumEntries() is |new files| + |deleted files| + |blob additions| +
\* |blob garbages| + |WAL additions| + (1 if a WAL deletion is set) in every
\* state; AddTableFile, AddGuard, DeleteGuard, the cursor calls, the watermark
\* setters, SetColumnFamily and MarkAtomicGroup leave it unchanged, and a
\* DeleteFile of an already-recorded (level, number) pair does not increase it.
C28_NumEntriesCountsSixLists ==
  /\ [](NumEntries(edit) = CountedEntries(edit))
  /\ [][ /\ (left' = left - 1 /\ lastCall' \in UncountedCalls)
             => NumEntries(edit') = NumEntries(edit)
         /\ (left' = left - 1 /\ lastCall' = "DeleteFile"
               /\ <<lastArg'[1], lastArg'[2]>> \in edit.deleted_files_)
             => NumEntries(edit') <= NumEntries(edit) ]_vars

\* an AddTableFile went through on an edit that holds a counted entry
C28_Witness ==
  /\ ~aborted
  /\ lastCall = "AddTableFile"
  /\ edit.new_table_files_ # <<>>
  /\ NumEntries(edit) = 2

\* the tags of the forward compatible records
ForwardCompatibleTags ==
  {kDbId, kBlobFileAddition_DEPRECATED, kBlobFileGarbage_DEPRECATED, kWalAddition,
   kWalDeletion, kFullHistoryTsLow, kWalAddition2, kWalDeletion2}

\* C29: the tag tables agree with the two tests: the values of Tag, its mask
\* included, are pairwise distinct; exactly kDbId..kWalDeletion2, which are
\* 8193..8200, have tag & kTagSafeIgnoreMask # 0, and the mandatory tags
\* (within 1..10, 100..103, 200..203, 300, 400..401) have the bit clear;
\* among the custom tags only kPathId (65) has
\* tag & kCustomTagNonSafeIgnoreMask # 0, and kTerminate..kUniqueId (1..12)
\* do not.
C29_TagTablesMatchIgnoreMasks ==
  LET all == Tag \o <<kTagSafeIgnoreMask>> IN
  /\ \A i, j \in DOMAIN all : i # j => all[i] # all[j]
  /\ ForwardCompatibleTags = 8193..8200
  /\ Range(Tag) \ ForwardCompatibleTags \subseteq
        (1..10) \cup (100..103) \cup (200..203) \cup {300} \cup (400..401)
  /\ \A tag \in Range(Tag) :
        (BitAnd(tag, kTagSafeIgnoreMask) # 0) <=> (tag \in ForwardCompatibleTags)
  /\ Range(NewFileCustomTag) = (1..12) \cup {65}
  /\ kTerminate = 1 /\ kUniqueId = 12 /\ kPathId = 65
  /\ \A custom_tag \in Range(NewFileCustomTag) :
        (BitAnd(custom_tag, kCustomTagNonSafeIgnoreMask) # 0) <=> (custom_tag = kPathId)
  /\ got.call = "Tag" => (got.value <=> lastArg[1] \in 8193..8200)
  /\ got.call = "NewFileCustomTag" => (got.value <=> lastArg[1] = 65)

\* kWalDeletion2, the last forward compatible tag, was read and has the bit
C29_Witness ==
  /\ got.call = "Tag"
  /\ lastArg = <<kWalDeletion2>>
  /\ got.value
  /\ left = 0

====
